---- MODULE Spec2Model ----
(***************************************************************************)
(* A model of the xantus RAG service (onamfc/rag-chat):                    *)
(*   - the ingestion service (services/ingest_service.py) with its         *)
(*     document registry, vector store and storage directory;              *)
(*   - the chat service (services/chat_service.py), batch and streaming;   *)
(*   - the MCP tool layer (services/mcp_service.py).                       *)
(* Strings the code takes apart or puts together (document ids, file       *)
(* names, storage paths) are sequences of one-character strings.           *)
(***************************************************************************)
EXTENDS Integers, Sequences, FiniteSets, Bags, TLC

VARIABLES
    vector_store_kind,  \* settings.vector_store.provider: "chroma" or "qdrant"
    document_metadata,  \* IngestService.document_metadata: document_id -> DocumentInfo
    vector_store,       \* the chunks (nodes) held by the vector store, a bag:
                        \* a node's id is a fresh uuid and is left out
    storage_dir,        \* ./data/uploaded_docs: file name -> bytes
    call,               \* the last ingestion request with its response
    last_success,       \* history: document_id -> last successful operation on it
    returned_ids        \* history: bytes -> the document ids ingests of them returned

ingest_vars ==
    <<vector_store_kind, document_metadata, vector_store, storage_dir,
      call, last_success, returned_ids>>

VARIABLES
    chat,         \* the last chat request, what chat_completion made of it, its response
    llm_input,    \* whether the LLM was invoked for it, and with which messages
    stream_pc,    \* where the streaming response is: idle, open, streaming, final, done, failed
    llm_stream,   \* the deltas the LLM's stream yields, in order
    llm_pos,      \* how many of them the generator has taken
    sse           \* the frames the router has sent on the event stream

chat_vars == <<chat, llm_input, stream_pc, llm_stream, llm_pos, sse>>

VARIABLES
    servers,      \* MCPService.servers: the registered servers, in dict order
    initialized,  \* MCPService._initialized
    processes,    \* the subprocesses spawned so far, in order of spawning
    tool_call     \* the last operation of the MCP service with its outcome

mcp_vars == <<servers, initialized, processes, tool_call>>

VARIABLES
    chunks_call   \* the last retrieval request with its response

retrieve_vars == <<chunks_call>>

VARIABLES
    tasks,        \* the coroutines that call the MCP service: where each stands
    children      \* the pipes of the subprocesses, by process

wire_vars == <<tasks, children>>

VARIABLES
    requests      \* the HTTP requests in progress: the IngestService instance
                  \* made for each, and where its handler stands

request_vars == <<requests>>

\* The variables of the services other than the ingestion service.
other_vars == <<chat_vars, mcp_vars, retrieve_vars, wire_vars, request_vars>>

\* The variables of the services other than the chat service.
non_chat_vars ==
    <<ingest_vars, mcp_vars, retrieve_vars, wire_vars, request_vars>>

\* The variables of the ingestion, chat and retrieval services.
service_vars == <<ingest_vars, chat_vars, retrieve_vars, request_vars>>

\* The variables other than those of the MCP service called by one caller.
non_mcp_vars == <<service_vars, wire_vars>>

----------------------------------------------------------------------------
(* Bounds of the model. *)

\* rag.chunk_size and rag.chunk_overlap (settings.py 89-98), scaled down to
\* the length of the modelled texts.
ChunkSize == 2
ChunkOverlap == 1
\* Copies of one chunk the vector store holds at a time.
MaxCopies == 2
\* The largest top_k a retrieval request gives.
MaxTopK == 3
\* Subprocesses spawned in all, and request lines written to one of them.
MaxProcesses == 2
MaxStdin == 3
\* The tools/call requests concurrent tasks write in all.
MaxCalls == 2
\* The lines a subprocess writes that answer no request.
MaxNotifications == 1
\* The writes to its stderr a subprocess can make before the pipe is full.
PipeCapacity == 1

----------------------------------------------------------------------------
(* Strings. *)

HexDigits ==
    <<"0", "1", "2", "3", "4", "5", "6", "7",
      "8", "9", "a", "b", "c", "d", "e", "f">>

\* hexdigest()[:16]
DocIdLen == 16
\* a SHA-256 hex digest has 64 digits
DigestLen == 64

\* The raw bytes of the uploaded files, each byte written as its character.
Contents == { <<>>, <<"h", "i", "!">> }

\* The value of a byte.
ByteValue(b) ==
    CASE b = "h" -> 104
      [] b = "i" -> 105
      [] b = "!" -> 33
      [] OTHER   -> 0

\* UploadFile.filename; the empty name is refused by the router.
FileNames == { <<>>, <<"a">>, <<"a", "_", "b">> }

RECURSIVE Absorb(_, _, _)
\* The running state of the digest after bytes i..Len(bytes).
Absorb(bytes, i, h) ==
    IF i > Len(bytes) THEN h
    ELSE Absorb(bytes, i + 1, (h * 33 + ByteValue(bytes[i]) + 1) % 65521)

\* hashlib.sha256(content_bytes).hexdigest(): a stand-in digest with what the
\* code relies on: it is computed from the bytes alone and gives 64 hex digits.
Sha256HexDigest(bytes) ==
    LET h == Absorb(bytes, 1, 5381)
    IN  [i \in 1..DigestLen |-> HexDigits[(((h + i) * (2 * i + 1) + (h \div i)) % 16) + 1]]

\* hashlib.sha256(content_bytes).hexdigest()[:16], tabulated over Contents.
content_hash == [c \in Contents |-> SubSeq(Sha256HexDigest(c), 1, DocIdLen)]

\* f"{document_id}_{file_name}"
StoragePath(document_id, file_name) == document_id \o <<"_">> \o file_name

----------------------------------------------------------------------------
(* The text splitter. *)

RECURSIVE SplitFrom(_, _)
\* The chunks of text from position start on: windows of ChunkSize characters,
\* each starting ChunkSize - ChunkOverlap after the one before, the last one
\* ending with the text.
SplitFrom(text, start) ==
    IF start > Len(text) THEN <<>>
    ELSE IF start + ChunkSize - 1 >= Len(text)
         THEN << SubSeq(text, start, Len(text)) >>
         ELSE << SubSeq(text, start, start + ChunkSize - 1) >>
              \o SplitFrom(text, start + (ChunkSize - ChunkOverlap))

\* self.text_splitter.get_nodes_from_documents(documents)
get_nodes_from_documents(text) == SplitFrom(text, 1)

----------------------------------------------------------------------------
(* The ingestion service. *)

\* The ids of the modelled contents, and one no content hashes to.
UnknownId == [i \in 1..DocIdLen |-> "0"]
DocumentIds == { content_hash[c] : c \in Contents } \cup { UnknownId }

\* isinstance(self.vector_store, ChromaVectorStore)
IsChroma == vector_store_kind = "chroma"

\* Nodes numbered from 1 instead of 0.
MakeNodes_from_one(document_id, file_name, chunks) ==
    { [document_id |-> document_id,
       file_name   |-> file_name,
       chunk_index |-> idx + 1,
       text        |-> chunks[idx + 1]] : idx \in 0..(Len(chunks) - 1) }

\* The nodes of one ingest: each chunk with the document's metadata and its
\* chunk_index (enumerate).
MakeNodes(document_id, file_name, chunks) ==
    { [document_id |-> document_id,
       file_name   |-> file_name,
       chunk_index |-> idx,
       text        |-> chunks[idx + 1]] : idx \in 0..(Len(chunks) - 1) }

\* ingest_file from the file write on (lines 133-187), for the document_id
\* computed at its start. fails is the step that raises: "parse" (the
\* reader), "embed" (embedding or upsert), or "none".
ingest_as(document_id, file_name, content_bytes, fails) ==
    LET file_path   == StoragePath(document_id, file_name)
        disk        == [p \in DOMAIN storage_dir \cup {file_path} |->
                            IF p = file_path THEN content_bytes ELSE storage_dir[p]]
        chunks      == get_nodes_from_documents(content_bytes)
        nodes       == MakeNodes(document_id, file_name, chunks)
        info        == [document_id |-> document_id,
                        file_name   |-> file_name,
                        num_chunks  |-> Len(chunks)]
    IN  IF fails # "none"
        THEN [raised |-> "Exception", document_id |-> document_id, num_chunks |-> 0,
              metadata |-> document_metadata, store |-> vector_store,
              disk |-> disk]
        ELSE [raised |-> "none", document_id |-> document_id,
              num_chunks |-> Len(chunks),
              metadata |-> [d \in DOMAIN document_metadata \cup {document_id} |->
                              IF d = document_id THEN info ELSE document_metadata[d]],
              store |-> vector_store (+) SetToBag(nodes),
              disk |-> disk]

\* A document id that depends on the file name as well as on the bytes.
ingest_file_id_from_name(file_name, content_bytes, fails) ==
    ingest_as(SubSeq(Sha256HexDigest(content_bytes \o file_name), 1, DocIdLen),
              file_name, content_bytes, fails)

\* An ingest that replaces the chunks the store has of the document.
ingest_file_replacing(file_name, content_bytes, fails) ==
    LET document_id == content_hash[content_bytes]
        r == ingest_as(document_id, file_name, content_bytes, fails)
    IN  IF r.raised # "none" THEN r
        ELSE [r EXCEPT !.store =
                 [n \in { m \in DOMAIN vector_store : m.document_id # document_id }
                    |-> vector_store[n]]
                 (+) SetToBag(MakeNodes(document_id, file_name,
                                        get_nodes_from_documents(content_bytes)))]

\* IngestService.ingest_file
ingest_file(file_name, content_bytes, fails) ==
    ingest_as(content_hash[content_bytes], file_name, content_bytes, fails)

RECURSIVE values(_, _)
\* list(d.values()) of the entries of registry under the keys in keys.
values(registry, keys) ==
    IF keys = {} THEN <<>>
    ELSE LET k == CHOOSE x \in keys : TRUE
         IN  <<registry[k]>> \o values(registry, keys \ {k})

\* IngestService.list_documents
list_documents ==
    LET documents == values(document_metadata, DOMAIN document_metadata)
    IN  [documents |-> documents, total |-> Len(documents)]

\* A delete whose filter matches every chunk.
delete_where_anything(store, file_name) == EmptyBag

\* collection.delete(where={"file_name": file_name})
delete_where_file_name(store, file_name) ==
    [n \in { m \in DOMAIN store : m.file_name # file_name } |-> store[n]]

\* A delete that answers "deleted" for an id it does not know.
delete_document_unknown_ok(document_id, vs_raises) ==
    IF document_id \notin DOMAIN document_metadata
    THEN [raised |-> "none", status |-> "deleted", vs_error |-> FALSE,
          metadata |-> document_metadata, store |-> vector_store,
          disk |-> storage_dir]
    ELSE LET doc_info  == document_metadata[document_id]
             file_path == StoragePath(document_id, doc_info.file_name)
         IN  [raised |-> "none", status |-> "deleted",
              vs_error |-> vector_store_kind = "chroma" /\ vs_raises,
              metadata |-> [d \in DOMAIN document_metadata \ {document_id} |->
                              document_metadata[d]],
              store |-> IF vector_store_kind = "chroma" /\ ~vs_raises
                        THEN delete_where_file_name(vector_store, doc_info.file_name)
                        ELSE vector_store,
              disk |-> [p \in DOMAIN storage_dir \ {file_path} |-> storage_dir[p]]]

\* A delete that lets the vector store's error out, before the registry and
\* the file are touched.
delete_document_store_error_raised(document_id, vs_raises) ==
    IF document_id \notin DOMAIN document_metadata
    THEN [raised |-> "ValueError", status |-> "none", vs_error |-> FALSE,
          metadata |-> document_metadata, store |-> vector_store,
          disk |-> storage_dir]
    ELSE IF vector_store_kind = "chroma" /\ vs_raises
    THEN [raised |-> "Exception", status |-> "none", vs_error |-> TRUE,
          metadata |-> document_metadata, store |-> vector_store,
          disk |-> storage_dir]
    ELSE LET doc_info  == document_metadata[document_id]
             file_path == StoragePath(document_id, doc_info.file_name)
         IN  [raised |-> "none", status |-> "deleted", vs_error |-> FALSE,
              metadata |-> [d \in DOMAIN document_metadata \ {document_id} |->
                              document_metadata[d]],
              store |-> IF vector_store_kind = "chroma"
                        THEN delete_where_file_name(vector_store, doc_info.file_name)
                        ELSE vector_store,
              disk |-> [p \in DOMAIN storage_dir \ {file_path} |-> storage_dir[p]]]

\* A delete that removes the chunks and the file and keeps the registry entry.
delete_document_entry_kept(document_id, vs_raises) ==
    IF document_id \notin DOMAIN document_metadata
    THEN [raised |-> "ValueError", status |-> "none", vs_error |-> FALSE,
          metadata |-> document_metadata, store |-> vector_store,
          disk |-> storage_dir]
    ELSE LET doc_info  == document_metadata[document_id]
             file_path == StoragePath(document_id, doc_info.file_name)
         IN  [raised |-> "none", status |-> "deleted",
              vs_error |-> vector_store_kind = "chroma" /\ vs_raises,
              metadata |-> document_metadata,
              store |-> IF vector_store_kind = "chroma" /\ ~vs_raises
                        THEN delete_where_file_name(vector_store, doc_info.file_name)
                        ELSE vector_store,
              disk |-> [p \in DOMAIN storage_dir \ {file_path} |-> storage_dir[p]]]

\* IngestService.delete_document of the service instance whose registry is
\* registry. vs_raises: the store's delete raises.
delete_from(registry, document_id, vs_raises) ==
    IF document_id \notin DOMAIN registry
    THEN [raised |-> "ValueError", status |-> "none", vs_error |-> FALSE,
          metadata |-> registry, store |-> vector_store,
          disk |-> storage_dir]
    ELSE LET doc_info  == registry[document_id]
             vs_error  == IsChroma /\ vs_raises
             store     == IF IsChroma /\ ~vs_raises
                          THEN delete_where_file_name(vector_store, doc_info.file_name)
                          ELSE vector_store
             file_path == StoragePath(document_id, doc_info.file_name)
         IN  [raised |-> "none", status |-> "deleted", vs_error |-> vs_error,
              metadata |-> [d \in DOMAIN registry \ {document_id} |-> registry[d]],
              store |-> store,
              disk |-> [p \in DOMAIN storage_dir \ {file_path} |-> storage_dir[p]]]

\* IngestService.delete_document.
delete_document(document_id, vs_raises) ==
    delete_from(document_metadata, document_id, vs_raises)

RECURSIVE FirstUnderscore(_, _)
\* The position of the first "_" of name from i on; 0 if there is none.
FirstUnderscore(name, i) ==
    IF i > Len(name) THEN 0
    ELSE IF name[i] = "_" THEN i
    ELSE FirstUnderscore(name, i + 1)

\* file_path.name.split("_", 1)
split_once(name) ==
    LET i == FirstUnderscore(name, 1) IN
    IF i = 0 THEN << name >>
    ELSE << SubSeq(name, 1, i - 1), SubSeq(name, i + 1, Len(name)) >>

\* The files of the directory _load_metadata_from_disk makes an entry of:
\* not hidden, and with an underscore in the name.
Loadable(disk) ==
    { p \in DOMAIN disk :
        /\ ~(Len(p) > 0 /\ p[1] = ".")
        /\ Len(split_once(p)) = 2 }

\* len(collection.get(where={"document_id": document_id})["ids"]) on a
\* Chroma store; 0 on another store.
count_where_document_id(store, document_id) ==
    IF IsChroma
    THEN BagCardinality([n \in { m \in DOMAIN store : m.document_id = document_id }
                           |-> store[n]])
    ELSE 0

\* IngestService._load_metadata_from_disk: the registries it can build of
\* the directory. Each loadable file sets the entry of its document_id, in
\* the order glob yields the files, which is any order: of the files with
\* one document_id any may come last.
load_metadata_from_disk(disk, store) ==
    LET ids == { split_once(p)[1] : p \in Loadable(disk) }
        names(d) == { split_once(p)[2] :
                        p \in { q \in Loadable(disk) : split_once(q)[1] = d } }
    IN  { [d \in ids |->
             [document_id |-> d, file_name |-> last[d],
              num_chunks |-> count_where_document_id(store, d)]] :
          last \in { f \in [ids -> UNION { names(d) : d \in ids }] :
                       \A d \in ids : f[d] \in names(d) } }

\* The routers' mapping of what the service raised to the HTTP status.
ingest_status(raised) == IF raised = "none" THEN 200 ELSE 500
delete_status(raised) ==
    IF raised = "none" THEN 200 ELSE IF raised = "ValueError" THEN 404 ELSE 500

NoResponse == [documents |-> <<>>, total |-> 0]

\* POST /v1/ingest/file
IngestFile ==
    \E file_name \in FileNames, content_bytes \in Contents,
       fails \in {"none", "parse", "embed"} :
        IF file_name = <<>>
        THEN /\ call' = [op |-> "ingest_file", document_id |-> UnknownId,
                         raised |-> "HTTPException", http |-> 400,
                         status |-> "none", num_chunks |-> 0, vs_error |-> FALSE,
                         listing |-> NoResponse]
             /\ UNCHANGED <<vector_store_kind, document_metadata, vector_store,
                            storage_dir, last_success, returned_ids>>
             /\ UNCHANGED other_vars
        ELSE \E r \in { ingest_file(file_name, content_bytes, fails) } :
             /\ \A n \in DOMAIN r.store : r.store[n] <= MaxCopies
             /\ document_metadata' = r.metadata
             /\ vector_store' = r.store
             /\ storage_dir' = r.disk
             /\ call' = [op |-> "ingest_file", document_id |-> r.document_id,
                         raised |-> r.raised, http |-> ingest_status(r.raised),
                         status |-> IF r.raised = "none" THEN "success" ELSE "none",
                         num_chunks |-> r.num_chunks, vs_error |-> FALSE,
                         listing |-> NoResponse]
             /\ last_success' =
                    IF r.raised = "none"
                    THEN [last_success EXCEPT ![r.document_id] = "ingest"]
                    ELSE last_success
             /\ returned_ids' =
                    IF r.raised = "none"
                    THEN [returned_ids EXCEPT ![content_bytes] = @ \cup {r.document_id}]
                    ELSE returned_ids
             /\ UNCHANGED vector_store_kind
             /\ UNCHANGED other_vars

\* GET /v1/documents
ListDocuments ==
    /\ call' = [op |-> "list_documents", document_id |-> UnknownId,
                raised |-> "none", http |-> 200,
                status |-> "none", num_chunks |-> 0, vs_error |-> FALSE,
                listing |-> list_documents]
    /\ UNCHANGED <<vector_store_kind, document_metadata, vector_store,
                   storage_dir, last_success, returned_ids>>
    /\ UNCHANGED other_vars

\* DELETE /v1/documents/{document_id}
DeleteDocument ==
    \E document_id \in DocumentIds, vs_raises \in BOOLEAN :
        \E r \in { delete_document(document_id, vs_raises) } :
        /\ document_metadata' = r.metadata
        /\ vector_store' = r.store
        /\ storage_dir' = r.disk
        /\ call' = [op |-> "delete_document", document_id |-> document_id,
                    raised |-> r.raised, http |-> delete_status(r.raised),
                    status |-> r.status, num_chunks |-> 0, vs_error |-> r.vs_error,
                    listing |-> NoResponse]
        /\ last_success' =
               IF r.raised = "none"
               THEN [last_success EXCEPT ![document_id] = "delete"]
               ELSE last_success
        /\ UNCHANGED <<vector_store_kind, returned_ids>>
        /\ UNCHANGED other_vars

NoCall ==
    [op |-> "none", document_id |-> UnknownId, raised |-> "none", http |-> 0, status |-> "none",
     num_chunks |-> 0, vs_error |-> FALSE, listing |-> NoResponse]

\* A new IngestService over an empty storage directory and an empty store.
IngestInit ==
    /\ vector_store_kind \in {"chroma", "qdrant"}
    /\ document_metadata = <<>>
    /\ vector_store = EmptyBag
    /\ storage_dir = <<>>
    /\ call = NoCall
    /\ last_success = [d \in DocumentIds |-> "none"]
    /\ returned_ids = [c \in Contents |-> {}]

IngestNext == IngestFile \/ ListDocuments \/ DeleteDocument

\* The service is started again: a new IngestService over the directory and
\* the store as they are.
Restart ==
    /\ document_metadata' \in load_metadata_from_disk(storage_dir, vector_store)
    /\ call' = [NoCall EXCEPT !.op = "restart"]
    /\ UNCHANGED <<vector_store_kind, vector_store, storage_dir, last_success,
                   returned_ids>>
    /\ UNCHANGED other_vars

----------------------------------------------------------------------------
(* The delete requests as the application serves them.  The router's         *)
(* dependency get_ingest_service asks the injector for an IngestService;     *)
(* the class is bound in no scope, so each request is served by an instance  *)
(* of its own, whose registry __init__ loads from the directory.  The        *)
(* instances share the directory and the vector store.                       *)

Clients == {"client1", "client2"}

NoRequest ==
    [pc |-> "none", document_id |-> UnknownId, registry |-> <<>>,
     existing |-> FALSE, overlaps |-> FALSE, raised |-> "none",
     status |-> "none", http |-> 0]

\* DELETE /v1/documents/{document_id} arrives: the dependency is resolved,
\* which makes the instance that will serve the request.  The clients are
\* alike, and client1 is the one whose request arrives first.
DeleteArrives ==
    /\ \E c \in Clients, document_id \in DocumentIds :
         /\ requests[c].pc = "none"
         /\ c = "client1" \/ requests["client1"].pc # "none"
         /\ \E registry \in load_metadata_from_disk(storage_dir, vector_store) :
              requests' =
                  [d \in Clients |->
                     IF d = c
                     THEN [NoRequest EXCEPT
                             !.pc = "resolved",
                             !.document_id = document_id,
                             !.registry = registry,
                             !.existing = document_id \in DOMAIN registry,
                             !.overlaps = \E e \in Clients \ {c} :
                                             requests[e].pc = "resolved"]
                     ELSE IF requests[d].pc = "resolved"
                     THEN [requests[d] EXCEPT !.overlaps = TRUE]
                     ELSE requests[d]]
    /\ UNCHANGED <<ingest_vars, chat_vars, mcp_vars, retrieve_vars, wire_vars>>

\* The handler of a delete request runs: delete_document of the request's
\* instance, which awaits nothing and so runs to its end, and the router's
\* mapping of what it raised.  The instance is dropped with the request.
DeleteServed ==
    /\ \E c \in Clients, vs_raises \in BOOLEAN :
         /\ requests[c].pc = "resolved"
         /\ \E r \in { delete_from(requests[c].registry,
                                    requests[c].document_id, vs_raises) } :
              /\ vector_store' = r.store
              /\ storage_dir' = r.disk
              /\ requests' = [requests EXCEPT
                                ![c].pc = "done",
                                ![c].registry = <<>>,
                                ![c].raised = r.raised,
                                ![c].status = r.status,
                                ![c].http = delete_status(r.raised)]
    /\ UNCHANGED <<vector_store_kind, document_metadata, call, last_success,
                   returned_ids>>
    /\ UNCHANGED <<chat_vars, mcp_vars, retrieve_vars, wire_vars>>

\* The documents are ingested before the delete requests arrive.
IngestBefore ==
    /\ \A c \in Clients : requests[c].pc = "none"
    /\ IngestFile

RequestInit == requests = [c \in Clients |-> NoRequest]

----------------------------------------------------------------------------
(* The chat service. *)

\* rag.similarity_top_k (settings.py 84-88), scaled down to the modelled store.
similarity_top_k == 2
\* The length of the longest stream of deltas the LLM yields.
MaxDeltas == 2

Message(role, content) == [role |-> role, content |-> content]

\* The conversations of the modelled requests: one question, a conversation
\* with two user messages, and one without any user message.
Conversations ==
    { << Message("user", <<"What is X?">>) >>,
      << Message("system", <<"Be brief.">>), Message("user", <<"q1">>),
         Message("assistant", <<"a1">>), Message("user", <<"q2">>) >>,
      << Message("assistant", <<"a1">>) >> }

\* ChatCompletionRequest
Requests ==
    [messages : Conversations, use_context : BOOLEAN,
     include_sources : BOOLEAN, stream : BOOLEAN]

\* The deltas of a streamed answer; <<>> is the empty string.
Deltas == { <<"a">>, <<>> }
DeltaStreams == UNION { [1..n -> Deltas] : n \in 0..MaxDeltas }

\* The content of a batch answer.
Answers == { <<"X is a letter.">> }

\* LlamaMessage(role=MessageRole(msg.role), content=msg.content)
LlamaMessage(msg) == [role |-> msg.role, content |-> msg.content]

\* [LlamaMessage(...) for msg in request.messages]
ToLlamaMessages(messages) ==
    [i \in 1..Len(messages) |-> LlamaMessage(messages[i])]

\* The nodes of a store, a node held k times being k nodes.
StoreItems(store) ==
    UNION { { <<n, i>> : i \in 1..store[n] } : n \in DOMAIN store }

\* The similarity scores of the modelled retrievals.
Scores == { 1, 2 }

\* NodeWithScore
NodeWithScore(item, score) ==
    [text |-> item[1].text,
     metadata |-> [document_id |-> item[1].document_id,
                   file_name   |-> item[1].file_name,
                   chunk_index |-> item[1].chunk_index],
     copy |-> item[2],
     score |-> score]

\* What retriever.aretrieve(query) may return with similarity_top_k = k: at
\* most k nodes of the store, no node twice, by non-increasing score.
Retrievals(store, k) ==
    LET items == StoreItems(store)
        most  == IF Cardinality(items) < k THEN Cardinality(items) ELSE k
        picks == UNION { [1..n -> items \X Scores] : n \in 0..most }
    IN  { [i \in 1..Len(p) |-> NodeWithScore(p[i][1], p[i][2])] :
            p \in { q \in picks :
                      /\ \A i \in 1..Len(q), j \in 1..Len(q) :
                            i # j => q[i][1] # q[j][1]
                      /\ \A i \in 1..(Len(q) - 1) : q[i][2] >= q[i + 1][2] } }

RECURSIVE JoinParts(_, _)
\* "\n\n".join(context_parts), from part i on
JoinParts(nodes, i) ==
    LET part == <<"[Source: ">> \o nodes[i].metadata.file_name \o <<"]\n">>
                \o nodes[i].text
    IN  IF i = Len(nodes) THEN part
        ELSE part \o <<"\n\n">> \o JoinParts(nodes, i + 1)

\* A context made of the first retrieved node alone.
retrieve_context_first(nodes) ==
    IF nodes = <<>>
    THEN [context |-> <<>>, nodes |-> <<>>]
    ELSE [context |-> JoinParts(<<nodes[1]>>, 1), nodes |-> nodes]

\* ChatService._retrieve_context, for the nodes the retriever returned
retrieve_context(nodes) ==
    IF nodes = <<>>
    THEN [context |-> <<>>, nodes |-> <<>>]
    ELSE [context |-> JoinParts(nodes, 1), nodes |-> nodes]

\* The system message chat_completion puts before the conversation.
context_message(context) ==
    [role |-> "system",
     content |-> <<"Use the following context to answer the user's question:\n\n">>
                 \o context]

\* A context stage that adds the system message whatever was retrieved.
chat_completion_always_context(request, nodes) ==
    LET messages == ToLlamaMessages(request.messages)
        user_messages == SelectSeq(request.messages, LAMBDA m : m.role = "user")
    IN  IF request.use_context /\ user_messages # <<>>
        THEN [retrieval |-> "done",
              query |-> user_messages[Len(user_messages)].content,
              retrieved_nodes |-> retrieve_context(nodes).nodes,
              messages |-> <<context_message(retrieve_context(nodes).context)>>
                           \o messages]
        ELSE [retrieval |-> "skipped", query |-> <<>>,
              retrieved_nodes |-> <<>>, messages |-> messages]

\* ChatService.chat_completion up to the generation (lines 84-111); nodes is
\* what the retriever returns if it is asked.
chat_completion(request, nodes) ==
    LET messages == ToLlamaMessages(request.messages)
        user_messages == SelectSeq(request.messages, LAMBDA m : m.role = "user")
    IN  IF request.use_context /\ user_messages # <<>>
        THEN LET r == retrieve_context(nodes)
             IN  [retrieval |-> "done",
                  query |-> user_messages[Len(user_messages)].content,
                  retrieved_nodes |-> r.nodes,
                  messages |-> IF r.context # <<>>
                               THEN <<context_message(r.context)>> \o messages
                               ELSE messages]
        ELSE [retrieval |-> "skipped", query |-> <<>>,
              retrieved_nodes |-> <<>>, messages |-> messages]

\* SourceCitation(...) of a retrieved node
SourceCitation(node) ==
    [file_name |-> node.metadata.file_name,
     chunk_index |-> node.metadata.chunk_index,
     score |-> node.score,
     text |-> node.text]

\* sources=None
NoSources == [present |-> FALSE, items |-> <<>>]

\* A generation that cites the retrieved nodes from the last to the first.
generate_completion_reversed(request, retrieved_nodes, answer) ==
    [choices |-> << [index |-> 0,
                     message |-> Message("assistant", answer),
                     finish_reason |-> "stop"] >>,
     usage |-> [prompt_tokens |-> 0, completion_tokens |-> 0, total_tokens |-> 0],
     sources |-> IF request.include_sources /\ retrieved_nodes # <<>>
                 THEN [present |-> TRUE,
                       items |-> [i \in 1..Len(retrieved_nodes) |->
                                    SourceCitation(retrieved_nodes[
                                        Len(retrieved_nodes) - i + 1])]]
                 ELSE NoSources]

\* ChatService._generate_completion, for the LLM's answer
generate_completion(request, retrieved_nodes, answer) ==
    [choices |-> << [index |-> 0,
                     message |-> Message("assistant", answer),
                     finish_reason |-> "stop"] >>,
     usage |-> [prompt_tokens |-> 0, completion_tokens |-> 0, total_tokens |-> 0],
     sources |-> IF request.include_sources /\ retrieved_nodes # <<>>
                 THEN [present |-> TRUE,
                       items |-> [i \in 1..Len(retrieved_nodes) |->
                                    SourceCitation(retrieved_nodes[i])]]
                 ELSE NoSources]

NoChatResponse ==
    [choices |-> <<>>,
     usage |-> [prompt_tokens |-> 0, completion_tokens |-> 0, total_tokens |-> 0],
     sources |-> NoSources]

NotInvoked == [called |-> FALSE, messages |-> <<>>]

\* The ChatStreamChunk of one delta, as the frame the router sends for it.
delta_frame(delta) ==
    [data |-> "chunk", delta |-> { <<"content", delta>> }, finish_reason |-> "null"]

\* The final ChatStreamChunk.
final_frame == [data |-> "chunk", delta |-> {}, finish_reason |-> "stop"]

\* "data: [DONE]\n\n"
done_frame == [data |-> "[DONE]", delta |-> {}, finish_reason |-> "null"]

\* A loop body that passes on only the deltas that have text.
forward_delta_nonempty(frames, delta) ==
    IF delta = <<>> THEN frames ELSE Append(frames, delta_frame(delta))

\* The body of the async for loop of _stream_completion with the router's
\* stream_generator: one chunk of the LLM becomes one frame.
forward_delta(frames, delta) == Append(frames, delta_frame(delta))

\* Whether chat_completion asks the retriever (lines 97-102).
AsksRetriever(request) ==
    request.use_context /\ \E i \in 1..Len(request.messages) :
                               request.messages[i].role = "user"

\* What the retriever does for a request: it is not asked, it raises, or it
\* returns one of results.
RetrieverOutcomes(request, results) ==
    IF AsksRetriever(request)
    THEN { [raises |-> TRUE, nodes |-> <<>>] }
         \cup { [raises |-> FALSE, nodes |-> n] : n \in results }
    ELSE { [raises |-> FALSE, nodes |-> <<>>] }

\* POST /v1/chat/completions: chat_completion for a request, and on the batch
\* path the generation. A request is taken when no stream is being sent.
ChatCompletions ==
    /\ stream_pc \in {"idle", "done", "failed"}
    /\ \E results \in { Retrievals(vector_store, similarity_top_k) } :
       \E request \in Requests :
       \E retriever \in RetrieverOutcomes(request, results) :
       \E llm \in IF request.stream \/ retriever.raises
                  THEN {"ok"} ELSE {"ok", "raises"} :
       \E answer \in Answers :
       \E c \in { chat_completion(request, retriever.nodes) } :
            IF retriever.raises
            THEN /\ chat' = [request |-> request, retrieval |-> "raised",
                             query |-> c.query,
                             retrieved_nodes |-> <<>>, messages |-> <<>>,
                             raised |-> "Exception", llm_failed |-> FALSE,
                             response |-> NoChatResponse]
                 /\ llm_input' = NotInvoked
                 /\ stream_pc' = "idle"
                 /\ llm_stream' = <<>> /\ llm_pos' = 0 /\ sse' = <<>>
                 /\ UNCHANGED non_chat_vars
            ELSE IF request.stream
            THEN /\ chat' = [request |-> request, retrieval |-> c.retrieval,
                             query |-> c.query,
                             retrieved_nodes |-> c.retrieved_nodes,
                             messages |-> c.messages,
                             raised |-> "none", llm_failed |-> FALSE,
                             response |-> NoChatResponse]
                 /\ llm_input' = NotInvoked
                 /\ stream_pc' = "open"
                 /\ llm_stream' = <<>> /\ llm_pos' = 0 /\ sse' = <<>>
                 /\ UNCHANGED non_chat_vars
            ELSE /\ chat' = [request |-> request, retrieval |-> c.retrieval,
                             query |-> c.query,
                             retrieved_nodes |-> c.retrieved_nodes,
                             messages |-> c.messages,
                             raised |-> IF llm = "ok" THEN "none" ELSE "ProviderError",
                             llm_failed |-> llm # "ok",
                             response |->
                                IF llm = "ok"
                                THEN generate_completion(request, c.retrieved_nodes, answer)
                                ELSE NoChatResponse]
                 /\ llm_input' = [called |-> TRUE, messages |-> c.messages]
                 /\ stream_pc' = "idle"
                 /\ llm_stream' = <<>> /\ llm_pos' = 0 /\ sse' = <<>>
                 /\ UNCHANGED non_chat_vars

\* The first step of the generator: await self.llm.astream_chat(messages).
StreamOpen ==
    /\ stream_pc = "open"
    /\ llm_input' = [called |-> TRUE, messages |-> chat.messages]
    /\ \E deltas \in DeltaStreams :
          /\ llm_stream' = deltas
          /\ stream_pc' = "streaming"
    /\ UNCHANGED <<chat, llm_pos, sse, non_chat_vars>>

\* One turn of the async for loop: the LLM yields its next delta and the
\* chunk made of it is sent.
StreamChunk ==
    /\ stream_pc = "streaming"
    /\ llm_pos < Len(llm_stream)
    /\ llm_pos' = llm_pos + 1
    /\ sse' = forward_delta(sse, llm_stream[llm_pos + 1])
    /\ UNCHANGED <<chat, llm_input, stream_pc, llm_stream, non_chat_vars>>

\* The LLM's stream is exhausted: the final chunk is sent.
StreamFinal ==
    /\ stream_pc = "streaming"
    /\ llm_pos = Len(llm_stream)
    /\ sse' = Append(sse, final_frame)
    /\ stream_pc' = "final"
    /\ UNCHANGED <<chat, llm_input, llm_stream, llm_pos, non_chat_vars>>

\* The generator is exhausted: stream_generator sends the [DONE] frame.
StreamDone ==
    /\ stream_pc = "final"
    /\ sse' = Append(sse, done_frame)
    /\ stream_pc' = "done"
    /\ UNCHANGED <<chat, llm_input, llm_stream, llm_pos, non_chat_vars>>

\* The LLM raises, when the stream is opened or while it is read: the
\* generator ends with the error and nothing more is sent.
StreamFails ==
    /\ stream_pc \in {"open", "streaming"}
    /\ stream_pc = "streaming" => llm_pos < Len(llm_stream)
    /\ llm_input' = [called |-> TRUE, messages |-> chat.messages]
    /\ chat' = [chat EXCEPT !.raised = "ProviderError", !.llm_failed = TRUE]
    /\ stream_pc' = "failed"
    /\ UNCHANGED <<llm_stream, llm_pos, sse, non_chat_vars>>

NoChat ==
    [request |-> [messages |-> <<>>, use_context |-> FALSE,
                  include_sources |-> FALSE, stream |-> FALSE],
     retrieval |-> "skipped", query |-> <<>>,
     retrieved_nodes |-> <<>>, messages |-> <<>>,
     raised |-> "none", llm_failed |-> FALSE, response |-> NoChatResponse]

ChatInit ==
    /\ chat = NoChat
    /\ llm_input = NotInvoked
    /\ stream_pc = "idle"
    /\ llm_stream = <<>>
    /\ llm_pos = 0
    /\ sse = <<>>

ChatNext ==
    ChatCompletions \/ StreamOpen \/ StreamChunk \/ StreamFinal \/ StreamDone
        \/ StreamFails

\* The ingest that fills the store the chat service reads: the first request
\* of the ingestion service.
ChatIngest == call = NoCall /\ IngestFile

----------------------------------------------------------------------------
(* The retrieval endpoint. *)

\* ChunkRetrievalRequest.top_k when it is not given (None).
NoTopK == 0

\* ChunkRetrievalRequest.top_k: not given, or an integer greater than 0.
TopKs == { NoTopK } \cup (1..MaxTopK)

\* A retrieval that always asks for the configured number of nodes.
effective_top_k_configured(top_k) == similarity_top_k

\* top_k = request.top_k or self.settings.rag.similarity_top_k
effective_top_k(top_k) == IF top_k = NoTopK THEN similarity_top_k ELSE top_k

\* RetrievedChunk(text=node.text, metadata=ChunkMetadata(...)) of a node
RetrievedChunk(node) ==
    [text |-> node.text,
     metadata |-> [document_id |-> node.metadata.document_id,
                   file_name   |-> node.metadata.file_name,
                   chunk_index |-> node.metadata.chunk_index,
                   score       |-> node.score]]

\* ChatService.retrieve_chunks, for the nodes the retriever returned: one
\* chunk per node, in the retriever's order.
retrieve_chunks(nodes) ==
    [chunks |-> [i \in 1..Len(nodes) |-> RetrievedChunk(nodes[i])]]

\* A request for which the retriever is asked.
AlwaysAsks ==
    [use_context |-> TRUE, messages |-> << Message("user", <<"What is X?">>) >>]

NoRetrieval ==
    [op |-> "none", top_k |-> NoTopK, asked |-> NoTopK, raised |-> "none",
     http |-> 0, retriever |-> [raises |-> FALSE, nodes |-> <<>>],
     chunks |-> <<>>]

\* POST /v1/chunks/retrieve: the retriever is asked for effective_top_k
\* nodes; it returns a ranking or raises, and what it raises goes to the
\* caller.
RetrieveChunks ==
    /\ \E top_k \in TopKs :
         \E k \in { effective_top_k(top_k) } :
         \E results \in { Retrievals(vector_store, k) } :
         \E retriever \in RetrieverOutcomes(AlwaysAsks, results) :
             chunks_call' =
                 IF retriever.raises
                 THEN [op |-> "retrieve", top_k |-> top_k, asked |-> k,
                       raised |-> "Exception", http |-> 500,
                       retriever |-> retriever, chunks |-> <<>>]
                 ELSE [op |-> "retrieve", top_k |-> top_k, asked |-> k,
                       raised |-> "none", http |-> 200, retriever |-> retriever,
                       chunks |-> retrieve_chunks(retriever.nodes).chunks]
    /\ UNCHANGED <<ingest_vars, chat_vars, mcp_vars, wire_vars, request_vars>>

RetrieveInit == chunks_call = NoRetrieval

----------------------------------------------------------------------------
(* The MCP tool layer. *)

\* The configured tool servers, by name (mcp_servers_config of initialize).
mcp_servers_config == << <<"alpha">>, <<"beta">> >>

\* The tools subprocesses advertise, and a name none of them advertises.
AdvertisedTools == { <<"t1">>, <<"t2">> }
ToolNames == AdvertisedTools \cup { <<"t3">> }
Arguments == { <<"{}">> }

\* self.process = None.
NoProcess == 0

\* JSON-RPC requests, as written on a subprocess's stdin.
InitializeRequest ==
    [id |-> 1, method |-> "initialize", name |-> <<>>, arguments |-> <<>>]

ListToolsRequest ==
    [id |-> 2, method |-> "tools/list", name |-> <<>>, arguments |-> <<>>]

CallToolRequest(tool_name, arguments) ==
    [id |-> 3, method |-> "tools/call", name |-> tool_name, arguments |-> arguments]

\* What readline() on a subprocess's stdout gives: no line (end of file), a
\* line that is not JSON, or a JSON object with a result, an error, both or
\* neither.
Results == { <<"r1">>, <<"r2">> }
Errors == { <<"e1">>, <<"e2">> }
None == <<"None">>

CallResponses ==
    { [kind |-> "result", result |-> r, error |-> None] : r \in Results }
        \cup { [kind |-> "error", result |-> None, error |-> e] : e \in Errors }
        \cup { [kind |-> "both", result |-> <<"r1">>, error |-> <<"e1">>] }
        \cup { [kind |-> k, result |-> None, error |-> None] :
                 k \in {"neither", "garbage", "eof"} }

\* Responses to tools/list: a result with a "tools" list, a result without,
\* or any of the other lines.
ListResponses ==
    { [kind |-> "result", tools |-> t] : t \in SUBSET AdvertisedTools }
        \cup { [kind |-> k, tools |-> {}] :
                 k \in {"result_without_tools", "error", "neither", "garbage", "eof"} }

InitializeResponses ==
    { [kind |-> k] : k \in {"result", "error", "neither", "garbage", "eof"} }

NoLine == [kind |-> "none", result |-> None, error |-> None]

\* "result" in response, "error" in response.
HasResult(response) == response.kind \in {"result", "both"}
HasError(response) == response.kind \in {"error", "both"}

\* subprocess.Popen(cmd, stdin=PIPE, stdout=PIPE, ...): a new child process.
Popen(name) ==
    [name |-> name, running |-> TRUE, stdin |-> <<>>, signal |-> "none",
     wait |-> "none"]

\* MCPServer._send_request on the process pid of procs, the child answering
\* with response.  Writing to the stdin of a child that has exited fails.
send_request(procs, pid, request, response) ==
    IF pid = NoProcess
    THEN [raised |-> "RuntimeError", detail |-> <<"not running">>, processes |-> procs]
    ELSE IF ~procs[pid].running
    THEN [raised |-> "BrokenPipeError", detail |-> <<"broken pipe">>, processes |-> procs]
    ELSE LET written == [procs EXCEPT ![pid].stdin = Append(@, request)] IN
         IF response.kind = "eof"
         THEN [raised |-> "RuntimeError", detail |-> <<"No response">>,
               processes |-> written]
         ELSE IF response.kind = "garbage"
         THEN [raised |-> "JSONDecodeError", detail |-> <<"not JSON">>,
               processes |-> written]
         ELSE [raised |-> "none", detail |-> <<>>, processes |-> written]

\* MCPServer._list_tools: the catalog the server caches; every failure leaves
\* it empty.
list_tools(procs, pid, response) ==
    LET sent == send_request(procs, pid, ListToolsRequest, response) IN
    [tools |-> IF sent.raised = "none" /\ response.kind = "result"
               THEN response.tools ELSE {},
     processes |-> sent.processes]

\* MCPServer.start for the server called name: spawn says whether Popen
\* succeeds, the child answers the two handshake requests with
\* initialize_response and list_response.
start(procs, name, spawn, initialize_response, list_response) ==
    IF ~spawn
    THEN [started |-> FALSE,
          server |-> [name |-> name, process |-> NoProcess, tools |-> {}],
          processes |-> procs]
    ELSE LET pid == Len(procs) + 1
             spawned == Append(procs, Popen(name))
             greeted == send_request(spawned, pid, InitializeRequest,
                                     initialize_response)
             listed == list_tools(greeted.processes, pid, list_response)
         IN  IF greeted.raised # "none"
             THEN [started |-> FALSE,
                   server |-> [name |-> name, process |-> pid, tools |-> {}],
                   processes |-> greeted.processes]
             ELSE [started |-> TRUE,
                   server |-> [name |-> name, process |-> pid,
                               tools |-> listed.tools],
                   processes |-> listed.processes]

\* self.servers[name] = server: a dict keeps the position of a key it has.
Register(srvs, server) ==
    IF \E i \in 1..Len(srvs) : srvs[i].name = server.name
    THEN [i \in 1..Len(srvs) |->
             IF srvs[i].name = server.name THEN server ELSE srvs[i]]
    ELSE Append(srvs, server)

\* The line that stands for a request that is never written.
Unasked == [kind |-> "eof", tools |-> {}]

\* How the child of one configured server behaves during start: Popen
\* fails; or the child is spawned and answers initialize with a line that
\* makes _send_request raise; or it answers both requests.
ChildBehaviours ==
    { [spawn |-> FALSE, initialize |-> [kind |-> "eof"], list |-> Unasked] }
        \cup { [spawn |-> TRUE, initialize |-> i, list |-> Unasked] :
                 i \in { r \in InitializeResponses : r.kind \in {"garbage", "eof"} } }
        \cup { [spawn |-> TRUE, initialize |-> i, list |-> l] :
                 i \in { r \in InitializeResponses : r.kind \notin {"garbage", "eof"} },
                 l \in ListResponses }

\* MCPService.initialize from the config with index i on.
RECURSIVE initialize(_, _, _, _, _)
initialize(srvs, procs, config, behaviours, i) ==
    IF i > Len(config)
    THEN [servers |-> srvs, processes |-> procs]
    ELSE LET s == start(procs, config[i], behaviours[i].spawn,
                        behaviours[i].initialize, behaviours[i].list)
         IN  initialize(IF s.started THEN Register(srvs, s.server) ELSE srvs,
                        s.processes, config, behaviours, i + 1)

\* A routing that ignores the catalogs.
FirstRegistered(srvs, tool_name, i) ==
    IF i > Len(srvs) THEN 0 ELSE i

\* A scan that takes the last registered server whose catalog has the tool.
LastWith(srvs, tool_name, i) ==
    LET with == { j \in i..Len(srvs) : tool_name \in srvs[j].tools } IN
    IF with = {} THEN 0 ELSE CHOOSE j \in with : \A k \in with : k <= j

\* for server in self.servers.values(): if any(t["name"] == tool_name ...):
\* the first registered server, from i on, whose catalog has the tool; 0 if
\* there is none.
RECURSIVE FirstWith(_, _, _)
FirstWith(srvs, tool_name, i) ==
    IF i > Len(srvs) THEN 0
    ELSE IF tool_name \in srvs[i].tools THEN i
    ELSE FirstWith(srvs, tool_name, i + 1)

\* A call_tool that hands an error response back as the call's value.
server_call_tool_error_returned(procs, server, tool_name, arguments, response) ==
    LET sent == send_request(procs, server.process,
                             CallToolRequest(tool_name, arguments), response)
    IN  IF sent.raised # "none"
        THEN [target |-> server.process, raised |-> sent.raised,
              detail |-> sent.detail, returned |-> FALSE, value |-> None,
              response |-> NoLine, processes |-> sent.processes]
        ELSE [target |-> server.process, raised |-> "none", detail |-> <<>>,
              returned |-> TRUE,
              value |-> IF HasResult(response) THEN response.result
                        ELSE IF HasError(response) THEN response.error ELSE None,
              response |-> response, processes |-> sent.processes]

\* MCPServer.call_tool: the result if the response has one, RuntimeError
\* with the error if it has that; with neither, the function falls off its
\* end and returns None.  Every exception is logged and raised again.
server_call_tool(procs, server, tool_name, arguments, response) ==
    LET sent == send_request(procs, server.process,
                             CallToolRequest(tool_name, arguments), response)
    IN  IF sent.raised # "none"
        THEN [target |-> server.process, raised |-> sent.raised,
              detail |-> sent.detail, returned |-> FALSE, value |-> None,
              response |-> NoLine, processes |-> sent.processes]
        ELSE IF HasResult(response)
        THEN [target |-> server.process, raised |-> "none", detail |-> <<>>,
              returned |-> TRUE, value |-> response.result,
              response |-> response, processes |-> sent.processes]
        ELSE IF HasError(response)
        THEN [target |-> server.process, raised |-> "RuntimeError",
              detail |-> <<"Tool error: ">> \o response.error,
              returned |-> FALSE, value |-> None,
              response |-> response, processes |-> sent.processes]
        ELSE [target |-> server.process, raised |-> "none", detail |-> <<>>,
              returned |-> TRUE, value |-> None,
              response |-> response, processes |-> sent.processes]

\* MCPService.call_tool.
call_tool(srvs, procs, tool_name, arguments, response) ==
    LET i == FirstWith(srvs, tool_name, 1) IN
    IF i = 0
    THEN [target |-> NoProcess, raised |-> "ValueError",
          detail |-> <<"not found in any MCP server">>,
          returned |-> FALSE, value |-> None,
          response |-> NoLine, processes |-> procs]
    ELSE server_call_tool(procs, srvs[i], tool_name, arguments, response)

\* What self.process.wait(timeout=5) does after terminate(): it returns when
\* the child has ended, and raises TimeoutExpired when the child is alive
\* after the five seconds; obeys says whether the child ends on SIGTERM
\* within them.
wait(proc, obeys) ==
    IF proc.running /\ ~obeys THEN "TimeoutExpired" ELSE "returned"

\* A stop that kills whatever the wait did.
stop_always_kill(procs, pid, obeys) ==
    IF pid = NoProcess THEN procs
    ELSE [procs EXCEPT ![pid].running = FALSE,
                       ![pid].wait = wait(procs[pid], obeys),
                       ![pid].signal = "SIGKILL"]

\* MCPServer.stop on the process pid: terminate(), wait(timeout=5), and
\* kill() if the wait times out.  The signal kept is the last one sent.
stop(procs, pid, obeys) ==
    IF pid = NoProcess THEN procs
    ELSE [procs EXCEPT ![pid].running = FALSE,
                       ![pid].wait = wait(procs[pid], obeys),
                       ![pid].signal = IF wait(procs[pid], obeys) = "TimeoutExpired"
                                       THEN "SIGKILL" ELSE "SIGTERM"]

\* MCPService.shutdown: stop every registered server, from the one with
\* index i on.
RECURSIVE shutdown(_, _, _, _)
shutdown(srvs, procs, obeys, i) ==
    IF i > Len(srvs) THEN procs
    ELSE shutdown(srvs, stop(procs, srvs[i].process, obeys[srvs[i].process]),
                  obeys, i + 1)

NoToolCall ==
    [op |-> "none", tool_name |-> <<>>, target |-> NoProcess, raised |-> "none",
     detail |-> <<>>, returned |-> FALSE, value |-> None, response |-> NoLine]

\* await mcp_service.initialize(mcp_servers_config)
MCPInitialize ==
    /\ \E behaviours \in [1..Len(mcp_servers_config) ->
                              IF Len(processes) < MaxProcesses
                              THEN ChildBehaviours
                              ELSE { b \in ChildBehaviours : ~b.spawn }] :
         /\ Len(processes)
               + Cardinality({ i \in 1..Len(mcp_servers_config) :
                                 behaviours[i].spawn }) <= MaxProcesses
         /\ \E r \in { initialize(servers, processes, mcp_servers_config,
                                  behaviours, 1) } :
             /\ servers' = r.servers
             /\ processes' = r.processes
             /\ initialized' = TRUE
             /\ tool_call' = [NoToolCall EXCEPT !.op = "initialize"]
    /\ UNCHANGED <<non_mcp_vars>>

\* The tools/call requests written so far to the processes from pid on.
RECURSIVE CallsWritten(_, _)
CallsWritten(procs, pid) ==
    IF pid > Len(procs) THEN 0
    ELSE Cardinality({ i \in 1..Len(procs[pid].stdin) :
                         procs[pid].stdin[i].method = "tools/call" })
         + CallsWritten(procs, pid + 1)

\* await mcp_service.call_tool(tool_name, arguments)
MCPCallTool ==
    /\ \A pid \in 1..Len(processes) : Len(processes[pid].stdin) < MaxStdin
    /\ \E tool_name \in ToolNames, arguments \in Arguments,
          response \in CallResponses :
         \E r \in { call_tool(servers, processes, tool_name, arguments,
                              response) } :
             /\ processes' = r.processes
             /\ tool_call' = [op |-> "call_tool", tool_name |-> tool_name,
                              target |-> r.target, raised |-> r.raised,
                              detail |-> r.detail, returned |-> r.returned,
                              value |-> r.value, response |-> r.response]
    /\ UNCHANGED <<servers, initialized, non_mcp_vars>>

\* mcp_service.shutdown()
MCPShutdown ==
    /\ \E obeys \in [1..Len(processes) -> BOOLEAN] :
         processes' = shutdown(servers, processes, obeys, 1)
    /\ servers' = <<>>
    /\ initialized' = FALSE
    /\ tool_call' = [NoToolCall EXCEPT !.op = "shutdown"]
    /\ UNCHANGED <<non_mcp_vars>>

\* A tool server's process ends on its own.
ProcessExits ==
    /\ \E pid \in 1..Len(processes) :
         /\ processes[pid].running
         /\ processes' = [processes EXCEPT ![pid].running = FALSE]
    /\ UNCHANGED <<servers, initialized, tool_call, non_mcp_vars>>

MCPInit ==
    /\ servers = <<>>
    /\ initialized = FALSE
    /\ processes = <<>>
    /\ tool_call = NoToolCall

----------------------------------------------------------------------------
(* The MCP tool layer step by step: its callers are coroutines (tasks) on   *)
(* one event loop, its subprocesses write lines on their pipes.  A step of  *)
(* a task runs its coroutine from where it stands to its next readline(),   *)
(* or to its end.                                                           *)

Tasks == { "task1", "task2" }

\* Where a coroutine can stand between steps: in the readline() of
\* _send_request, for the initialize request, the tools/list request or a
\* tools/call request.
ReadingPcs == { "reading_initialize", "reading_list", "reading_call" }

\* An event loop whose tasks give way to each other while they read.
SuspensionPoints_reading == ReadingPcs

\* The places where a coroutine gives the event loop to other tasks: an
\* await of something not yet done.  _send_request writes and reads with
\* blocking calls (82-86) and awaits nothing; the awaits of start, call_tool
\* and initialize are of coroutines that run at once.
SuspensionPoints == {}

\* The task stands in a blocking call: the thread of the event loop is not
\* available to any other task.
BlocksLoop(pc) == pc \in ReadingPcs \ SuspensionPoints

\* The lines a subprocess writes on its stdout.  id 0: no id.
Line(id, kind, tools) ==
    [id |-> id, kind |-> kind, tools |-> tools,
     result |-> IF kind = "result" THEN <<"r1">> ELSE None,
     error |-> IF kind = "error" THEN <<"e1">> ELSE None]

\* What readline() returns at the end of the file.
EndOfFile == Line(0, "eof", {})

\* A notification: a JSON object with a method and no id, result or error.
Notification == Line(0, "neither", {})

\* The lines with which a subprocess may answer a request.
Answers_to(request) ==
    { Line(request.id, "garbage", {}) }
        \cup IF request.method = "tools/list"
             THEN { Line(request.id, "result", t) : t \in SUBSET AdvertisedTools }
                      \cup { Line(request.id, "error", {}) }
             ELSE IF request.method = "tools/call"
             THEN { Line(request.id, k, {}) : k \in {"result", "error", "neither"} }
             ELSE { Line(request.id, k, {}) : k \in {"result", "error"} }

\* The pipes of a new subprocess and what it has done with them: the lines
\* on its stdout not yet read, the requests it has answered, the data on its
\* stderr not yet read, whether it is blocked writing to its stderr.
NewChild ==
    [stdout |-> <<>>, answered |-> 0, notified |-> 0, stderr |-> 0,
     blocked |-> FALSE]

\* self.process.stdin.write(request_json); self.process.stdin.flush()
write_request(procs, pid, request) ==
    IF pid = NoProcess
    THEN [raised |-> "RuntimeError", processes |-> procs]
    ELSE IF ~procs[pid].running
    THEN [raised |-> "BrokenPipeError", processes |-> procs]
    ELSE [raised |-> "none",
          processes |-> [procs EXCEPT ![pid].stdin = Append(@, request)]]

\* The rest of _send_request, for the line readline() returned.
parse_response(line) ==
    IF line.kind = "eof" THEN "RuntimeError"
    ELSE IF line.kind = "garbage" THEN "JSONDecodeError"
    ELSE "none"

\* A task that is in no call of the MCP service.
IdleTask ==
    [pc |-> "idle", op |-> "none", config |-> 0, pid |-> NoProcess,
     spawns |-> <<>>, tool_name |-> <<>>]

\* The line as call_tool sees the response.
AsResponse(line) ==
    [kind |-> line.kind, result |-> line.result, error |-> line.error]

\* The outcome of a call of call_tool by a task, as the caller sees it.
Outcome(task, raised, detail, returned, value, response) ==
    [op |-> "call_tool", tool_name |-> task.tool_name, target |-> task.pid,
     raised |-> raised, detail |-> detail, returned |-> returned,
     value |-> value, response |-> response]

\* An initialize whose loop ends at the first server that cannot be spawned.
initialize_from_aborting(srvs, procs, kids, task, i) ==
    IF i > Len(mcp_servers_config) \/ ~task.spawns[i]
    THEN [servers |-> srvs, processes |-> procs, children |-> kids,
          initialized |-> i > Len(mcp_servers_config),
          task |-> IdleTask]
    ELSE [servers |-> srvs,
          processes |-> write_request(
                            Append(procs, Popen(mcp_servers_config[i])),
                            Len(procs) + 1, InitializeRequest).processes,
          children |-> Append(kids, NewChild),
          initialized |-> FALSE,
          task |-> [task EXCEPT !.pc = "reading_initialize", !.config = i,
                                !.pid = Len(procs) + 1]]

\* MCPService.initialize from the config with index i on, up to the first
\* readline(): a server whose Popen fails is passed over, the next one is
\* spawned and sent the initialize request.
RECURSIVE initialize_from(_, _, _, _, _)
initialize_from(srvs, procs, kids, task, i) ==
    IF i > Len(mcp_servers_config)
    THEN [servers |-> srvs, processes |-> procs, children |-> kids,
          initialized |-> TRUE,
          task |-> IdleTask]
    ELSE IF ~task.spawns[i]
    THEN initialize_from(srvs, procs, kids, task, i + 1)
    ELSE LET pid == Len(procs) + 1
             spawned == Append(procs, Popen(mcp_servers_config[i]))
         IN  [servers |-> srvs,
              processes |-> write_request(spawned, pid, InitializeRequest).processes,
              children |-> Append(kids, NewChild),
              initialized |-> FALSE,
              task |-> [task EXCEPT !.pc = "reading_initialize", !.config = i,
                                    !.pid = pid]]

\* MCPServer.start after the readline() of the initialize request: a line
\* that makes _send_request raise ends start with False; after any other
\* line the tools/list request is written, and if that write fails
\* _list_tools swallows the error and start returns True.
after_initialize_line(srvs, procs, kids, task, line) ==
    IF parse_response(line) # "none"
    THEN initialize_from(srvs, procs, kids, task, task.config + 1)
    ELSE LET sent == write_request(procs, task.pid, ListToolsRequest) IN
         IF sent.raised # "none"
         THEN initialize_from(
                  Register(srvs, [name |-> mcp_servers_config[task.config],
                                  process |-> task.pid, tools |-> {}]),
                  procs, kids, task, task.config + 1)
         ELSE [servers |-> srvs, processes |-> sent.processes,
               children |-> kids, initialized |-> FALSE,
               task |-> [task EXCEPT !.pc = "reading_list"]]

\* MCPServer._list_tools after its readline(), and the rest of start and of
\* the loop of initialize: the catalog is the line's when the line has a
\* result with tools and empty otherwise; the server is registered.
after_list_line(srvs, procs, kids, task, line) ==
    initialize_from(
        Register(srvs, [name |-> mcp_servers_config[task.config],
                        process |-> task.pid,
                        tools |-> IF parse_response(line) = "none"
                                     /\ line.kind = "result"
                                  THEN line.tools ELSE {}]),
        procs, kids, task, task.config + 1)

\* MCPService.call_tool up to the readline() of the tools/call request, or
\* to its end if it raises before.
begin_call_tool(srvs, procs, tool_name, arguments) ==
    LET i == FirstWith(srvs, tool_name, 1)
        called == [IdleTask EXCEPT !.op = "call_tool", !.tool_name = tool_name]
    IN  IF i = 0
        THEN [processes |-> procs, task |-> IdleTask, ended |-> TRUE,
              outcome |-> Outcome(called, "ValueError",
                                  <<"not found in any MCP server">>,
                                  FALSE, None, NoLine)]
        ELSE LET sent == write_request(procs, srvs[i].process,
                                       CallToolRequest(tool_name, arguments))
                 routed == [called EXCEPT !.pid = srvs[i].process]
             IN  IF sent.raised # "none"
                 THEN [processes |-> procs, task |-> IdleTask, ended |-> TRUE,
                       outcome |-> Outcome(routed, sent.raised,
                                           <<"broken pipe">>, FALSE, None,
                                           NoLine)]
                 ELSE [processes |-> sent.processes,
                       task |-> [routed EXCEPT !.pc = "reading_call"],
                       ended |-> FALSE, outcome |-> NoToolCall]

\* MCPServer.call_tool after the readline() of its request.
after_call_line(task, line) ==
    IF parse_response(line) # "none"
    THEN Outcome(task, parse_response(line),
                 IF line.kind = "eof" THEN <<"No response">> ELSE <<"not JSON">>,
                 FALSE, None, NoLine)
    ELSE IF line.kind = "result"
    THEN Outcome(task, "none", <<>>, TRUE, line.result, AsResponse(line))
    ELSE IF line.kind = "error"
    THEN Outcome(task, "RuntimeError", <<"Tool error: ">> \o line.error,
                 FALSE, None, AsResponse(line))
    ELSE Outcome(task, "none", <<>>, TRUE, None, AsResponse(line))

\* The event loop can run task t: no other task stands in a blocking call.
CanRun(t) == \A u \in Tasks \ {t} : ~BlocksLoop(tasks[u].pc)

\* The task that makes the next call: the tasks that are in no call are all
\* alike, and the first of them is taken.
Caller(t) ==
    /\ tasks[t].pc = "idle"
    /\ CanRun(t)
    /\ t = "task1" \/ tasks["task1"].pc # "idle"

\* readline() on the stdout of pid returns: there is a line, or the
\* subprocess has ended and the file is at its end.
CanRead(pid) == children[pid].stdout # <<>> \/ ~processes[pid].running

NextLine(pid) ==
    IF children[pid].stdout # <<>> THEN Head(children[pid].stdout) ELSE EndOfFile

Taken(kids, pid) ==
    IF kids[pid].stdout # <<>>
    THEN [kids EXCEPT ![pid].stdout = Tail(@)] ELSE kids

\* A task calls MCPService.initialize.
TaskInitialize ==
    /\ Len(processes) + Len(mcp_servers_config) <= MaxProcesses
    /\ \E t \in Tasks, spawns \in [1..Len(mcp_servers_config) -> BOOLEAN] :
         /\ Caller(t)
         /\ \E r \in { initialize_from(servers, processes, children,
                           [IdleTask EXCEPT !.op = "initialize",
                                            !.spawns = spawns], 1) } :
              /\ servers' = r.servers
              /\ processes' = r.processes
              /\ children' = r.children
              /\ initialized' = (initialized \/ r.initialized)
              /\ tasks' = [tasks EXCEPT ![t] = r.task]
              /\ tool_call' = IF r.initialized
                              THEN [NoToolCall EXCEPT !.op = "initialize"]
                              ELSE tool_call
    /\ UNCHANGED service_vars

\* The readline() of a task in initialize returns.
TaskReadsHandshake ==
    /\ \E t \in Tasks :
         /\ tasks[t].pc \in {"reading_initialize", "reading_list"}
         /\ CanRun(t)
         /\ CanRead(tasks[t].pid)
         /\ \E r \in { IF tasks[t].pc = "reading_initialize"
                       THEN after_initialize_line(servers, processes,
                                Taken(children, tasks[t].pid), tasks[t],
                                NextLine(tasks[t].pid))
                       ELSE after_list_line(servers, processes,
                                Taken(children, tasks[t].pid), tasks[t],
                                NextLine(tasks[t].pid)) } :
              /\ servers' = r.servers
              /\ processes' = r.processes
              /\ children' = r.children
              /\ initialized' = (initialized \/ r.initialized)
              /\ tasks' = [tasks EXCEPT ![t] = r.task]
              /\ tool_call' = IF r.initialized
                              THEN [NoToolCall EXCEPT !.op = "initialize"]
                              ELSE tool_call
    /\ UNCHANGED service_vars

\* A task calls MCPService.call_tool.
TaskCallTool ==
    /\ CallsWritten(processes, 1) < MaxCalls
    /\ \E t \in Tasks, tool_name \in ToolNames, arguments \in Arguments :
         /\ Caller(t)
         /\ \E r \in { begin_call_tool(servers, processes, tool_name,
                                       arguments) } :
              /\ processes' = r.processes
              /\ tasks' = [tasks EXCEPT ![t] = r.task]
              /\ tool_call' = IF r.ended THEN r.outcome ELSE tool_call
    /\ UNCHANGED <<servers, initialized, children, service_vars>>

\* The readline() of a task in call_tool returns.
TaskReadsCall ==
    /\ \E t \in Tasks :
         /\ tasks[t].pc = "reading_call"
         /\ CanRun(t)
         /\ CanRead(tasks[t].pid)
         /\ tool_call' = after_call_line(tasks[t], NextLine(tasks[t].pid))
         /\ tasks' = [tasks EXCEPT ![t] = IdleTask]
         /\ children' = Taken(children, tasks[t].pid)
    /\ UNCHANGED <<servers, initialized, processes, service_vars>>

\* A subprocess answers the oldest request it has not answered.
ChildAnswers ==
    /\ \E pid \in 1..Len(processes) :
         /\ processes[pid].running
         /\ ~children[pid].blocked
         /\ children[pid].answered < Len(processes[pid].stdin)
         /\ \E line \in Answers_to(
                 processes[pid].stdin[children[pid].answered + 1]) :
              children' = [children EXCEPT
                             ![pid].stdout = Append(@, line),
                             ![pid].answered = @ + 1]
    /\ UNCHANGED <<servers, initialized, processes, tasks, tool_call,
                   service_vars>>

\* A subprocess ends.
ChildExits ==
    /\ \E pid \in 1..Len(processes) :
         /\ processes[pid].running
         /\ processes' = [processes EXCEPT ![pid].running = FALSE]
    /\ UNCHANGED <<servers, initialized, children, tasks, tool_call,
                   service_vars>>

\* A subprocess writes a line that answers no request.
ChildNotifies ==
    /\ \E pid \in 1..Len(processes) :
         /\ processes[pid].running
         /\ ~children[pid].blocked
         /\ children[pid].notified < MaxNotifications
         /\ children' = [children EXCEPT
                           ![pid].stdout = Append(@, Notification),
                           ![pid].notified = @ + 1]
    /\ UNCHANGED <<servers, initialized, processes, tasks, tool_call,
                   service_vars>>

\* A subprocess writes to its stderr.  The pipe Popen made for it is read
\* by nothing in the service: the data stays in the pipe, and when the pipe
\* is full the write blocks and the subprocess with it.
ChildLogs ==
    /\ \E pid \in 1..Len(processes) :
         /\ processes[pid].running
         /\ ~children[pid].blocked
         /\ children' = [children EXCEPT
                           ![pid].stderr =
                               IF @ < PipeCapacity THEN @ + 1 ELSE @,
                           ![pid].blocked =
                               children[pid].stderr >= PipeCapacity]
    /\ UNCHANGED <<servers, initialized, processes, tasks, tool_call,
                   service_vars>>

\* A task calls MCPService.shutdown.
TaskShutdown ==
    /\ \E t \in Tasks, obeys \in [1..Len(processes) -> BOOLEAN] :
         /\ Caller(t)
         /\ processes' = shutdown(servers, processes, obeys, 1)
    /\ servers' = <<>>
    /\ initialized' = FALSE
    /\ tool_call' = [NoToolCall EXCEPT !.op = "shutdown"]
    /\ UNCHANGED <<tasks, children, service_vars>>

WireInit ==
    /\ tasks = [t \in Tasks |-> IdleTask]
    /\ children = <<>>

----------------------------------------------------------------------------
(* The specifications. *)

vars ==
    <<ingest_vars, chat_vars, mcp_vars, retrieve_vars, wire_vars, request_vars>>

Init ==
    IngestInit /\ ChatInit /\ MCPInit /\ RetrieveInit /\ WireInit /\ RequestInit

\* The ingestion service under its requests.
Next == IngestNext

Spec == Init /\ [][Next]_vars

\* The chat service under its requests, over the stores ingests leave.
NextChat == ChatNext \/ ChatIngest

SpecChat == Init /\ [][NextChat]_vars

\* The retrieval endpoint, over the stores ingests leave.
NextRetrieve == RetrieveChunks \/ ChatIngest

SpecRetrieve == Init /\ [][NextRetrieve]_vars

\* The ingestion service under its requests and restarts.
NextRestart == IngestFile \/ DeleteDocument \/ Restart

SpecRestart == Init /\ [][NextRestart]_vars

\* An ingest request that succeeds, a delete request that succeeds.
IngestSucceeds == IngestFile /\ call'.status = "success"
DeleteSucceeds == DeleteDocument /\ call'.status = "deleted"

\* The ingestion service under successful requests and restarts.
NextDurable == IngestSucceeds \/ DeleteSucceeds \/ Restart

SpecDurable == Init /\ [][NextDurable]_vars

\* The ingestion service under successful requests.
NextSuccessful == IngestSucceeds \/ DeleteSucceeds

SpecSuccessful == Init /\ [][NextSuccessful]_vars

\* Delete requests of two clients, over the documents ingested before.
NextRequests == IngestBefore \/ DeleteArrives \/ DeleteServed

SpecRequests == Init /\ [][NextRequests]_vars

\* The MCP tool layer under its operations and the exits of its subprocesses.
\* initialize called while there is room for a subprocess of every
\* configured server.
MCPStartup ==
    /\ Len(processes) + Len(mcp_servers_config) <= MaxProcesses
    /\ MCPInitialize

NextMCP == MCPStartup \/ MCPCallTool \/ MCPShutdown \/ ProcessExits

\* The tool layer has no part in ingestion: one vector store provider.
InitMCP == Init /\ vector_store_kind = "chroma"

SpecMCP == InitMCP /\ [][NextMCP]_vars

\* The registry of the tool layer under every sequence of calls of
\* initialize and call_tool.
NextRegistry == MCPInitialize \/ MCPCallTool

SpecRegistry == InitMCP /\ [][NextRegistry]_vars

\* The MCP tool layer called by concurrent tasks, with its subprocesses.
NextWire ==
    TaskInitialize \/ TaskReadsHandshake \/ TaskCallTool \/ TaskReadsCall
        \/ ChildAnswers \/ ChildExits

SpecWire == InitMCP /\ [][NextWire]_vars

\* The same, with all that the subprocesses may do with their pipes.
NextPipes ==
    TaskInitialize \/ TaskReadsHandshake \/ TaskCallTool \/ TaskReadsCall
        \/ ChildAnswers \/ ChildExits \/ ChildNotifies \/ TaskShutdown

SpecPipes == InitMCP /\ [][NextPipes]_vars

\* The tool layer with subprocesses that write to their stderr.
NextStderr ==
    TaskInitialize \/ TaskReadsHandshake \/ TaskCallTool \/ TaskReadsCall
        \/ ChildAnswers \/ ChildExits \/ ChildLogs

SpecStderr == InitMCP /\ [][NextStderr]_vars

----------------------------------------------------------------------------
(* Properties of the ingestion service.  Every step of Spec is one request,  *)
(* and call' is that request with its response.                              *)

\* The document ids of a listing.
ListedIds(listing) ==
    { listing.documents[i].document_id : i \in 1..Len(listing.documents) }

\* C1: delete_document with an id that is not in the registry fails with
\* ValueError (HTTP 404) and changes nothing: registry, vector store and
\* storage directory stay as they were.
C1_DeleteUnknownNotFound ==
    [][ (call'.op = "delete_document"
            /\ call'.document_id \notin DOMAIN document_metadata)
        => /\ call'.raised = "ValueError"
           /\ call'.http = 404
           /\ call'.status # "deleted"
           /\ UNCHANGED <<document_metadata, vector_store, storage_dir>> ]_vars

\* C1 happens: a delete was answered NotFound while documents were registered,
\* stored and on disk.
C1_Witness ==
    /\ call.op = "delete_document"
    /\ call.raised = "ValueError"
    /\ DOMAIN document_metadata # {}
    /\ vector_store # EmptyBag
    /\ DOMAIN storage_dir # {}

\* C2: delete_document with a registered id removes the registry entry and the
\* file {document_id}_{file_name} and answers "deleted" with no error, also
\* when the vector store's delete raised.
C2_DeleteSurvivesStoreError ==
    [][ (call'.op = "delete_document"
            /\ call'.document_id \in DOMAIN document_metadata)
        => LET d == call'.document_id
               file_path == StoragePath(d, document_metadata[d].file_name)
           IN  /\ d \notin DOMAIN document_metadata'
               /\ file_path \notin DOMAIN storage_dir'
               /\ call'.raised = "none"
               /\ call'.status = "deleted"
               /\ call'.http = 200 ]_vars

\* C2 happens: a delete answered "deleted" although the store's delete raised,
\* and the document's chunks are still in the store.
C2_Witness ==
    /\ call.op = "delete_document"
    /\ call.status = "deleted"
    /\ call.vs_error
    /\ call.document_id \notin DOMAIN document_metadata
    /\ \E n \in DOMAIN vector_store : n.document_id = call.document_id

\* C3, the listing: list_documents holds an id exactly when the last successful
\* operation on it was an ingest, each once, and total is their number; the
\* same holds of the response of the last list request.
ListingMatchesHistory ==
    /\ \A d \in DocumentIds :
          d \in ListedIds(list_documents) <=> last_success[d] = "ingest"
    /\ list_documents.total = Len(list_documents.documents)
    /\ list_documents.total = Cardinality(ListedIds(list_documents))
    /\ call.op = "list_documents" =>
          /\ call.listing = list_documents
          /\ call.listing.total = Cardinality(ListedIds(call.listing))

\* C3, the second delete: a delete of the id a delete has just removed is
\* answered NotFound.
SecondDeleteNotFound ==
    (call.op = "delete_document" /\ call.status = "deleted"
        /\ call'.op = "delete_document"
        /\ call'.document_id = call.document_id)
    => call'.raised = "ValueError"

C4_DocumentIdFromBytes ==
    \A c \in Contents :
        /\ Cardinality(returned_ids[c]) <= 1
        /\ \A id \in returned_ids[c] :
              /\ Len(id) = DocIdLen
              /\ \A i \in 1..DocIdLen :
                    \E k \in 1..Len(HexDigits) : id[i] = HexDigits[k]
              /\ id = SubSeq(Sha256HexDigest(c), 1, DocIdLen)

\* C4 happens: the same bytes were ingested under two file names, the second
\* time into a registry and a store that already held the first ingest.
C4_Witness ==
    /\ call.op = "ingest_file"
    /\ call.status = "success"
    /\ \E c \in Contents : returned_ids[c] = {call.document_id}
    /\ \E n \in DOMAIN vector_store :
          /\ n.document_id = call.document_id
          /\ n.file_name # document_metadata[call.document_id].file_name

\* C5: the chunks a successful ingest writes to the vector store carry the
\* chunk_index values 0..num_chunks-1, each once, num_chunks being the count
\* the ingest returns and records in the registry.
C5_ChunkIndexGapFree ==
    [][ (call'.op = "ingest_file" /\ call'.status = "success")
        => LET written == vector_store' (-) vector_store
               n == call'.num_chunks
           IN  /\ document_metadata'[call'.document_id].num_chunks = n
               /\ BagCardinality(written) = n
               /\ \A w \in DOMAIN written : written[w] = 1
               /\ { w.chunk_index : w \in DOMAIN written } = 0..(n - 1)
               /\ \A w \in DOMAIN written : w.document_id = call'.document_id ]_vars

\* C5 happens: an ingest returned several chunks and they are in the store.
C5_Witness ==
    /\ call.op = "ingest_file"
    /\ call.status = "success"
    /\ call.num_chunks >= 2
    /\ Cardinality({ n \in DOMAIN vector_store :
                        n.document_id = call.document_id }) >= 2

----------------------------------------------------------------------------
(* Properties of the chat service. *)

\* The chat chunks among the frames sent, in order.
ChatChunks == SelectSeq(sse, LAMBDA f : f.data = "chunk")

\* The positions of the final chunks among the chat chunks.
FinalChunks == { i \in 1..Len(ChatChunks) : ChatChunks[i].finish_reason = "stop" }

\* C6: the chunks of a streaming response carry the LLM's deltas in the order
\* produced, each once and with finish_reason null; at most one chunk has
\* finish_reason "stop", it has an empty delta and follows every delta; and a
\* stream the LLM has ended without error has exactly one, as its last chunk,
\* after all the deltas of the LLM.
C6_StreamOrderAndOneFinal ==
    LET taken == SubSeq(llm_stream, 1, llm_pos)
    IN  /\ \A i \in 1..Len(ChatChunks) :
              \/ /\ i <= Len(taken)
                 /\ ChatChunks[i].delta = { <<"content", taken[i]>> }
                 /\ ChatChunks[i].finish_reason = "null"
              \/ /\ i = Len(taken) + 1
                 /\ i = Len(ChatChunks)
                 /\ ChatChunks[i].delta = {}
                 /\ ChatChunks[i].finish_reason = "stop"
        /\ Len(ChatChunks) >= Len(taken)
        /\ Cardinality(FinalChunks) <= 1
        /\ FinalChunks # {} => llm_pos = Len(llm_stream)
        /\ stream_pc \in {"final", "done"} =>
              /\ llm_pos = Len(llm_stream)
              /\ FinalChunks = { Len(llm_stream) + 1 }
              /\ Len(ChatChunks) = Len(llm_stream) + 1
        /\ stream_pc = "done" =>
              /\ Len(sse) = Len(ChatChunks) + 1
              /\ sse[Len(sse)] = done_frame

\* C6 happens: a stream of two deltas that differ, one of them empty, was sent
\* to its end.
C6_Witness ==
    /\ stream_pc = "done"
    /\ Len(llm_stream) = 2
    /\ llm_stream[1] # llm_stream[2]
    /\ Len(sse) = 4

\* C10: when use_context is set and the retriever returns nothing, the LLM is
\* given the caller's messages and nothing else, the context stage raises no
\* error (only the LLM can make the request fail), and a batch response has
\* no sources also when include_sources is set.
C10_NoFragmentsNoContext ==
    (chat.request.use_context /\ chat.retrieval = "done"
        /\ chat.retrieved_nodes = <<>>)
    => /\ chat.messages = ToLlamaMessages(chat.request.messages)
       /\ Len(chat.messages) = Len(chat.request.messages)
       /\ \A i \in 1..Len(chat.messages) :
             /\ chat.messages[i].role = chat.request.messages[i].role
             /\ chat.messages[i].content = chat.request.messages[i].content
       /\ llm_input.called => llm_input.messages = chat.messages
       /\ ~chat.request.stream => llm_input.called
       /\ chat.raised # "none" => chat.llm_failed
       /\ chat.response.sources = NoSources

\* C10 happens: a batch request with use_context and include_sources over an
\* empty store was answered.
C10_Witness ==
    /\ vector_store = EmptyBag
    /\ chat.request.use_context
    /\ chat.request.include_sources
    /\ ~chat.request.stream
    /\ chat.retrieval = "done"
    /\ chat.retrieved_nodes = <<>>
    /\ chat.raised = "none"
    /\ Len(chat.response.choices) = 1
    /\ llm_input.called

----------------------------------------------------------------------------
(* Properties of the MCP tool layer.  tool_call' after a call of            *)
(* MCPService.call_tool is that call with its outcome.                      *)

\* The registered servers whose cached catalog has the tool.
Advertisers(tool_name) ==
    { i \in 1..Len(servers) : tool_name \in servers[i].tools }

\* The tools/call request of the call c.
RequestOf(c) == CallToolRequest(c.tool_name, <<"{}">>)

\* The step is a call of MCPService.call_tool: the record of the last
\* operation is a call's, and the step made it so or wrote a request.  (A
\* call that leaves both as they were leaves every variable as it was.)
CallToolStep ==
    /\ tool_call'.op = "call_tool"
    /\ \/ tool_call' # tool_call
       \/ \E pid \in 1..Len(processes) :
              processes'[pid].stdin # processes[pid].stdin

\* A call for a tool that exactly one registered server advertises goes to
\* that server alone: its request is appended to the stdin of that server's
\* process (when the process is there to take it) and the stdin of every
\* other process is as it was; and the call returns the result of that
\* server's response when the response has one.
RoutedToTheOne ==
    \A i \in Advertisers(tool_call'.tool_name) :
        Advertisers(tool_call'.tool_name) = {i} =>
            LET pid == servers[i].process IN
            /\ tool_call'.target = pid
            /\ \A q \in 1..Len(processes) : q # pid => processes'[q] = processes[q]
            /\ processes[pid].running =>
                 processes'[pid].stdin =
                     Append(processes[pid].stdin, RequestOf(tool_call'))
            /\ processes[pid].running /\ HasResult(tool_call'.response) =>
                 /\ tool_call'.raised = "none"
                 /\ tool_call'.returned
                 /\ tool_call'.value = tool_call'.response.result

\* A call for a tool no registered server advertises raises ValueError and
\* writes nothing to any subprocess.
UnknownToolNotFound ==
    Advertisers(tool_call'.tool_name) = {} =>
        /\ tool_call'.raised = "ValueError"
        /\ ~tool_call'.returned
        /\ processes' = processes

\* C7: MCPService.call_tool sends the request for a tool in exactly one
\* registered server's catalog to that server and only that server and
\* returns that server's result; for a tool no registered server advertises
\* it fails with ValueError and writes no request to any subprocess.
C7_CallToolRouting ==
    [][CallToolStep => RoutedToTheOne /\ UnknownToolNotFound]_vars

\* Both cases have happened: with two servers registered, a call went to the
\* second one, the only advertiser, and returned its result.
C7_Witness ==
    /\ tool_call.op = "call_tool"
    /\ Len(servers) = 2
    /\ Advertisers(tool_call.tool_name) = {2}
    /\ tool_call.target = servers[2].process
    /\ tool_call.returned
    /\ tool_call.value \in Results
    /\ Len(processes[servers[1].process].stdin) = 2
    /\ Len(processes[servers[2].process].stdin) = 3

\* C8: a tools/call response that is a JSON object with neither a result
\* nor an error is not accepted as success: call_tool does not return
\* normally for it.
C8_MalformedResponseRejected ==
    [][CallToolStep /\ tool_call'.response.kind = "neither"
           => ~tool_call'.returned /\ tool_call'.raised # "none"]_vars

\* C9: when the response to tools/call has an error and no result, the call
\* of MCPService.call_tool raises RuntimeError whose message carries the
\* remote error payload; nothing is returned.
C9_ToolErrorReachesCaller ==
    [][CallToolStep /\ tool_call'.response.kind = "error"
           => /\ tool_call'.raised = "RuntimeError"
              /\ ~tool_call'.returned
              /\ tool_call'.detail = <<"Tool error: ">> \o tool_call'.response.error]_vars

C9_Witness ==
    /\ tool_call.op = "call_tool"
    /\ tool_call.response.kind = "error"
    /\ tool_call.response.error = <<"e2">>
    /\ tool_call.raised = "RuntimeError"
    /\ tool_call.detail = <<"Tool error: ", "e2">>

----------------------------------------------------------------------------
(* Properties of the retrieval endpoint. *)

\* The bound a retrieval request puts on its answer.
BoundOf(c) == IF c.top_k = NoTopK THEN similarity_top_k ELSE c.top_k

\* C11: retrieve_chunks returns at most top_k chunks, or at most the
\* configured similarity_top_k when top_k is not given, by non-increasing
\* score; it returns what the retriever found, and an empty finding is an
\* empty list with no error.
C11_RetrieveAtMostKRanked ==
    chunks_call.op = "retrieve" /\ ~chunks_call.retriever.raises =>
        /\ chunks_call.raised = "none"
        /\ chunks_call.http = 200
        /\ Len(chunks_call.chunks) <= BoundOf(chunks_call)
        /\ Len(chunks_call.chunks) = Len(chunks_call.retriever.nodes)
        /\ \A i \in 1..(Len(chunks_call.chunks) - 1) :
              chunks_call.chunks[i].metadata.score
                  >= chunks_call.chunks[i + 1].metadata.score
        /\ chunks_call.retriever.nodes = <<>> => chunks_call.chunks = <<>>

\* A request with a top_k below the configured one was answered with that
\* many chunks from a store that holds more.
C11_Witness ==
    /\ chunks_call.op = "retrieve"
    /\ chunks_call.top_k = 1
    /\ chunks_call.top_k < similarity_top_k
    /\ Len(chunks_call.chunks) = 1
    /\ Cardinality(StoreItems(vector_store)) > 1

----------------------------------------------------------------------------
(* Properties of the MCP tool layer under concurrent callers. *)

\* The tasks whose request to the process pid is in flight: written, and the
\* readline() for its response not yet returned.
InFlight(pid) ==
    { t \in Tasks : tasks[t].pc \in ReadingPcs /\ tasks[t].pid = pid }

\* C12: at every moment at most one request is in flight per subprocess:
\* whatever the interleaving of the tasks that call call_tool and
\* initialize, no request is written to a subprocess's stdin while the
\* response to an earlier one has not been read.
C12_OneRequestInFlight ==
    \A pid \in 1..Len(processes) : Cardinality(InFlight(pid)) <= 1

\* A task waits for the response to its tools/call request on a subprocess
\* to which the other task has made a call before.
C12_Witness ==
    \E t \in Tasks, u \in Tasks :
        /\ t # u
        /\ tasks[t].pc = "reading_call"
        /\ tasks[u].pc = "idle"
        /\ tool_call.op = "call_tool"
        /\ tool_call.returned
        /\ tool_call.target = tasks[t].pid

\* The request whose response a reading task waits for: the last one written
\* to the subprocess.
PendingRequest(t) ==
    processes[tasks[t].pid].stdin[Len(processes[tasks[t].pid].stdin)]

\* The readline() of task t returns in this step with a line that
\* _send_request parses and returns.
SendRequestReturns(t) ==
    /\ tasks[t].pc \in ReadingPcs
    /\ tasks'[t] # tasks[t]
    /\ parse_response(NextLine(tasks[t].pid)) = "none"

\* C13: every request written carries an id, and the response _send_request
\* returns to its caller is the one that answers its request: the line has
\* the id of the request.
C13_ResponseAnswersRequest ==
    [][\A t \in Tasks :
          SendRequestReturns(t) =>
              /\ PendingRequest(t).id > 0
              /\ NextLine(tasks[t].pid).id = PendingRequest(t).id]_vars

\* The state of the tool server that spawned the process pid: Ready when it
\* is registered, Starting while a task is in its start, Stopped otherwise.
ServerState(srvs, tsks, pid) ==
    IF \E i \in 1..Len(srvs) : srvs[i].process = pid THEN "Ready"
    ELSE IF \E t \in Tasks : /\ tsks[t].pc \in {"reading_initialize", "reading_list"}
                             /\ tsks[t].pid = pid
    THEN "Starting"
    ELSE "Stopped"

\* The edges of the state machine.
ServerEdges ==
    { <<"Stopped", "Starting">>, <<"Starting", "Ready">>,
      <<"Starting", "Stopped">>, <<"Ready", "Stopped">> }

\* A server that is Stopped has no live subprocess.
StoppedHasNoProcess ==
    \A pid \in 1..Len(processes) :
        ServerState(servers, tasks, pid) = "Stopped" => ~processes[pid].running

\* A step takes every server along an edge of the state machine or leaves
\* its state as it is; a server whose process is spawned in the step was
\* Stopped before.
FollowsEdges ==
    \A pid \in 1..Len(processes') :
        LET before == IF pid <= Len(processes)
                      THEN ServerState(servers, tasks, pid) ELSE "Stopped"
            after  == ServerState(servers', tasks', pid)
        IN  before = after \/ <<before, after>> \in ServerEdges
                \/ (pid > Len(processes) /\ after \in {"Starting", "Stopped"})

\* A tools/call request is written only to a server that is Ready.
CallsOnlyToReady ==
    \A pid \in 1..Len(processes) :
        (/\ Len(processes'[pid].stdin) > Len(processes[pid].stdin)
         /\ processes'[pid].stdin[Len(processes'[pid].stdin)].method = "tools/call")
            => ServerState(servers, tasks, pid) = "Ready"

\* C14: each tool server follows Stopped -> Starting -> Ready -> Stopped,
\* with Starting -> Stopped when its start fails, and no other transition;
\* a server whose start has failed is Stopped, with no live subprocess; and
\* tool calls are sent only to servers that are Ready.
C14_ServerStateMachine ==
    []StoppedHasNoProcess /\ [][FollowsEdges /\ CallsOnlyToReady]_vars

----------------------------------------------------------------------------
(* Properties of shutdown. *)

\* The step is a call of MCPService.shutdown that finds servers registered
\* or comes after another operation.  (A shutdown right after a shutdown
\* leaves every variable as it was.)
ShutdownStep ==
    /\ tool_call'.op = "shutdown"
    /\ tool_call.op # "shutdown" \/ servers # <<>>

\* shutdown signals every registered server's process, kills it exactly
\* when the wait of the grace period timed out, which it does only for a
\* process that was alive, and leaves it ended and no server registered;
\* the other processes are as they were.
ShutdownStopsReady ==
    /\ servers' = <<>>
    /\ ~initialized'
    /\ Len(processes') = Len(processes)
    /\ \A pid \in 1..Len(processes) :
         IF \E i \in 1..Len(servers) : servers[i].process = pid
         THEN /\ ~processes'[pid].running
              /\ processes'[pid].signal \in {"SIGTERM", "SIGKILL"}
              /\ processes'[pid].signal = "SIGKILL"
                     <=> processes'[pid].wait = "TimeoutExpired"
              /\ processes'[pid].wait = "TimeoutExpired" => processes[pid].running
         ELSE processes'[pid] = processes[pid]

\* In the state a shutdown leaves, another shutdown changes nothing.
ShutdownTwiceIsOnce ==
    tool_call.op = "shutdown" =>
        /\ servers = <<>>
        /\ ~initialized
        /\ \A obeys \in [1..Len(processes) -> BOOLEAN] :
              shutdown(servers, processes, obeys, 1) = processes

\* C15: shutdown sends every Ready server a termination signal, kills it
\* only if it is alive after the grace period, and leaves it Stopped; it
\* can be called in every state, and called again it changes nothing.
C15_ShutdownStopsAndIsIdempotent ==
    /\ [](ENABLED MCPShutdown)
    /\ []ShutdownTwiceIsOnce
    /\ [][ShutdownStep => ShutdownStopsReady]_vars

\* A shutdown has stopped two servers, one that ended on the termination
\* signal and one that had to be killed.
C15_Witness ==
    /\ tool_call.op = "shutdown"
    /\ \E p \in 1..Len(processes), q \in 1..Len(processes) :
         /\ processes[p].signal = "SIGTERM" /\ processes[p].wait = "returned"
         /\ processes[q].signal = "SIGKILL"
         /\ ~processes[p].running /\ ~processes[q].running

----------------------------------------------------------------------------
(* Properties of startup. *)

\* The readline() of task t in start returns in this step.
HandshakeReturns(t) ==
    /\ tasks[t].pc \in {"reading_initialize", "reading_list"}
    /\ tasks'[t] # tasks[t]

\* The start of the server that task t is starting fails in this step: the
\* line read for the initialize request is the end of the file or is not
\* JSON.
StartFails(t) ==
    /\ HandshakeReturns(t)
    /\ tasks[t].pc = "reading_initialize"
    /\ parse_response(NextLine(tasks[t].pid)) # "none"

\* The start of the server that task t is starting ends with success in
\* this step.
StartSucceeds(t) ==
    /\ HandshakeReturns(t)
    /\ ~StartFails(t)
    /\ tasks'[t].pc # "reading_list"

\* Task t begins MCPService.initialize in this step and spawns a server.
InitializeBegins(t) ==
    /\ tasks[t].pc = "idle"
    /\ tasks'[t].op = "initialize"

\* After the configured server i, initialize goes on: the next server
\* whose Popen does not fail is spawned and sent the initialize request,
\* and if there is none initialize returns without raising.
GoesOn(spawns, t, i) ==
    LET later == { j \in (i + 1)..Len(mcp_servers_config) : spawns[j] } IN
    IF later = {}
    THEN /\ tasks'[t] = IdleTask
         /\ initialized'
         /\ tool_call'.op = "initialize"
         /\ tool_call'.raised = "none"
    ELSE LET j == CHOOSE k \in later : \A l \in later : k <= l
             pid == Len(processes) + 1
         IN  /\ tasks'[t].pc = "reading_initialize"
             /\ tasks'[t].config = j
             /\ tasks'[t].pid = pid
             /\ Len(processes') = pid
             /\ processes'[pid].name = mcp_servers_config[j]
             /\ processes'[pid].running
             /\ processes'[pid].stdin = <<InitializeRequest>>

\* C16: in MCPService.initialize the failure of one server's start (Popen
\* fails, the end of the file is read, the line read is not JSON) leaves
\* the registry as it is and does not end the loop: every other configured
\* server is started, a server whose start succeeds is registered, and
\* initialize returns without raising.
C16_StartFailureIsContained ==
    [][\A t \in Tasks :
          /\ InitializeBegins(t) => GoesOn(tasks'[t].spawns, t, 0)
          /\ StartFails(t) =>
                /\ servers' = servers
                /\ GoesOn(tasks[t].spawns, t, tasks[t].config)
          /\ StartSucceeds(t) =>
                /\ \E i \in 1..Len(servers') :
                      /\ servers'[i].name = mcp_servers_config[tasks[t].config]
                      /\ servers'[i].process = tasks[t].pid
                /\ GoesOn(tasks[t].spawns, t, tasks[t].config)]_vars

\* initialize has returned: the first configured server was spawned, its
\* start failed and it is not registered; the second one is registered.
C16_Witness ==
    /\ tool_call.op = "initialize"
    /\ initialized
    /\ \A t \in Tasks : tasks[t].pc = "idle"
    /\ \E p \in 1..Len(processes), q \in 1..Len(processes) :
         /\ p < q
         /\ processes[p].name = mcp_servers_config[1]
         /\ processes[q].name = mcp_servers_config[2]
         /\ \A i \in 1..Len(servers) : servers[i].process # p
         /\ \E i \in 1..Len(servers) : servers[i].process = q

\* The line is a well-formed response: a JSON object with a result.
WellFormed(line) == parse_response(line) = "none" /\ line.kind = "result"

\* The server that task t is starting is registered after the step.
BecomesReady(t) ==
    \E i \in 1..Len(servers') : servers'[i].process = tasks[t].pid

\* C17: a server becomes Ready only if its initialize request and its
\* tools/list request both got a well-formed response: when the line read
\* for either is the end of the file, is not JSON or is an error response,
\* start does not go on to the next request and the server is not
\* registered.
C17_ReadyOnlyAfterBothResponses ==
    [][\A t \in Tasks :
          HandshakeReturns(t) /\ ~WellFormed(NextLine(tasks[t].pid)) =>
              /\ ~BecomesReady(t)
              /\ ~(tasks'[t].pc = "reading_list" /\ tasks'[t].pid = tasks[t].pid)]_vars

----------------------------------------------------------------------------
(* Properties of the pipes. *)

\* C18: the stderr of a subprocess is drained, so a subprocess is never
\* blocked in a write to its stderr, whatever it writes, and can answer
\* the requests it was sent.
C18_StderrNeverBlocks ==
    \A pid \in 1..Len(processes) :
        processes[pid].running => ~children[pid].blocked

\* Task t is in a call of a tool and waits for the response of its server.
WaitsForResponse(t) ==
    /\ tasks[t].pc = "reading_call"
    /\ ~CanRead(tasks[t].pid)

\* C19: calls to different subprocesses proceed concurrently: while the
\* call of one task waits for the response of its server, another task of
\* the service can run and make its call to another server.
C19_CallsToOtherServersProceed ==
    \A t \in Tasks, u \in Tasks :
        (t # u /\ WaitsForResponse(t) /\ tasks[u].pc = "idle") => CanRun(u)

----------------------------------------------------------------------------
(* Properties of call_tool when servers advertise the same tool. *)

\* The place of a registered server in the configuration.
ConfigIndex(server) ==
    CHOOSE k \in 1..Len(mcp_servers_config) : mcp_servers_config[k] = server.name

\* The call goes to the server i and to no other: its request is written
\* to the process of i when that process is there to take it, and every
\* other process is as it was.
SentOnlyTo(i) ==
    LET pid == servers[i].process IN
    /\ tool_call'.target = pid
    /\ \A q \in 1..Len(processes) : q # pid => processes'[q] = processes[q]
    /\ processes[pid].running =>
          processes'[pid].stdin =
              Append(processes[pid].stdin, RequestOf(tool_call'))

\* The call to the server i fails when its process has ended or answers
\* with an error, and a call that fails raises and returns nothing.
FailureIsRaised(i) ==
    /\ (~processes[servers[i].process].running
            \/ tool_call'.response.kind = "error") => tool_call'.raised # "none"
    /\ tool_call'.raised # "none" => ~tool_call'.returned

\* C20, as the code has it: a call for a tool that several registered
\* servers advertise goes to the first of them in the order of the
\* registry, which is the order in which the names were first registered,
\* and to no other; when that call fails the error is raised and no later
\* server is tried.
C20_FirstMatchWinsNoFallback ==
    [][(CallToolStep /\ Cardinality(Advertisers(tool_call'.tool_name)) >= 2) =>
          \E i \in Advertisers(tool_call'.tool_name) :
              /\ \A j \in Advertisers(tool_call'.tool_name) : i <= j
              /\ SentOnlyTo(i)
              /\ FailureIsRaised(i)]_vars

\* The registry holds the second configured server before the first; both
\* advertise the tool called; the call went to the first of the registry,
\* its server answered with an error, the error was raised, and the other
\* server has been sent no tools/call request.
C20_Witness ==
    /\ tool_call.op = "call_tool"
    /\ Len(servers) = 2
    /\ servers[1].name = mcp_servers_config[2]
    /\ servers[2].name = mcp_servers_config[1]
    /\ Advertisers(tool_call.tool_name) = {1, 2}
    /\ tool_call.target = servers[1].process
    /\ tool_call.response.kind = "error"
    /\ tool_call.raised = "RuntimeError"
    /\ Len(processes[servers[1].process].stdin) = 3
    /\ Len(processes[servers[2].process].stdin) = 2

\* C20, as stated: a call for a tool that several registered servers
\* advertise goes to the one of them that comes first in the configuration,
\* and to no other; when that call fails the error is raised and no later
\* server is tried.
C20_FirstInConfigurationOrder ==
    [][(CallToolStep /\ Cardinality(Advertisers(tool_call'.tool_name)) >= 2) =>
          \E i \in Advertisers(tool_call'.tool_name) :
              /\ \A j \in Advertisers(tool_call'.tool_name) :
                    ConfigIndex(servers[i]) <= ConfigIndex(servers[j])
              /\ SentOnlyTo(i)
              /\ FailureIsRaised(i)]_vars

----------------------------------------------------------------------------
(* Properties of concurrent requests to the ingestion service. *)

\* C21: two concurrent calls of delete_document for one existing
\* document_id are serialized: one returns "deleted" and the other fails
\* with NotFound, and neither fails with another error.
C21_ConcurrentDeletesSerialized ==
    \A c \in Clients, d \in Clients :
        ( /\ c # d
          /\ requests[c].pc = "done" /\ requests[d].pc = "done"
          /\ requests[c].overlaps /\ requests[d].overlaps
          /\ requests[c].document_id = requests[d].document_id
          /\ requests[c].existing /\ requests[d].existing )
        => /\ {requests[c].raised, requests[d].raised} = {"none", "ValueError"}
           /\ {requests[c].status, requests[d].status} = {"deleted", "none"}
           /\ {requests[c].http, requests[d].http} = {200, 404}

----------------------------------------------------------------------------
(* Properties of the vector store under deletes and repeated ingests. *)

\* The step is a delete_document that returns "deleted".
DeletedStep ==
    /\ call'.op = "delete_document"
    /\ call'.status = "deleted"

\* The step removes from the store every chunk with the file name of the
\* deleted entry and leaves the chunks with another file name as they are.
RemovesByFileName ==
    LET file_name == document_metadata[call'.document_id].file_name IN
    /\ \A n \in DOMAIN vector_store' : n.file_name # file_name
    /\ \A n \in DOMAIN vector_store :
          n.file_name # file_name =>
              CopiesIn(n, vector_store') = CopiesIn(n, vector_store)
    /\ DOMAIN vector_store' \subseteq DOMAIN vector_store

\* C22, as the code has it: a delete_document that returns "deleted"
\* removes, on a Chroma store whose delete does not raise, every chunk with
\* the file name of the registry entry, those of other documents with that
\* file name too, and leaves every chunk with another file name; on another
\* store no chunk is removed and the delete still returns "deleted".
C22_DeleteRemovesByFileName ==
    [][DeletedStep =>
          /\ IsChroma /\ ~call'.vs_error => RemovesByFileName
          /\ ~IsChroma => vector_store' = vector_store]_vars

\* A delete on a Chroma store has returned "deleted" and has removed the
\* chunks of another document, which has the same file name and is still
\* registered with chunks, and chunks with another file name are in the
\* store.
C22_Witness ==
    /\ IsChroma
    /\ call.op = "delete_document"
    /\ call.status = "deleted"
    /\ ~call.vs_error
    /\ vector_store # EmptyBag
    /\ \E d \in DOMAIN document_metadata :
         /\ document_metadata[d].num_chunks > 0
         /\ \A n \in DOMAIN vector_store :
               n.file_name # document_metadata[d].file_name

\* C22, as stated: on a Chroma store every delete_document that returns
\* "deleted" removes every chunk with the file name of the registry entry
\* and leaves every chunk with another file name; on another store no chunk
\* is removed and the delete still returns "deleted".
C22_EveryDeleteRemovesChunks ==
    [][DeletedStep =>
          IF IsChroma THEN RemovesByFileName
          ELSE vector_store' = vector_store]_vars

\* The step is a successful ingest of bytes whose document is registered:
\* the bytes were ingested before.
IngestedAgainStep ==
    /\ call'.op = "ingest_file"
    /\ call'.status = "success"
    /\ call'.document_id \in DOMAIN document_metadata

\* C23: a second ingest of the same bytes succeeds with the same
\* document_id and adds a full set of chunks to the vector store, leaving
\* every chunk the store had; the registry has one entry for the
\* document_id, as before.
C23_SecondIngestAddsRedundantChunks ==
    [][IngestedAgainStep =>
          LET document_id == call'.document_id
              file_name == document_metadata'[document_id].file_name
          IN  /\ \A c \in Contents :
                    content_hash[c] = document_id =>
                        returned_ids'[c] = returned_ids[c]
              /\ \E c \in Contents :
                    /\ content_hash[c] = document_id
                    /\ returned_ids[c] = {document_id}
                    /\ vector_store' =
                          vector_store (+)
                              SetToBag(MakeNodes(document_id, file_name,
                                                 get_nodes_from_documents(c)))
              /\ BagCardinality(vector_store') =
                    BagCardinality(vector_store) + call'.num_chunks
              /\ DOMAIN document_metadata' = DOMAIN document_metadata
              /\ document_metadata'[document_id].num_chunks = call'.num_chunks]_vars

\* The same bytes were ingested twice under one file name: the ingest
\* succeeded, the store holds each chunk twice and the registry one entry.
C23_Witness ==
    /\ call.op = "ingest_file"
    /\ call.status = "success"
    /\ call.num_chunks > 0
    /\ Cardinality(DOMAIN document_metadata) = 1
    /\ BagCardinality(vector_store) = 2 * call.num_chunks
    /\ \A n \in DOMAIN vector_store :
          n.document_id = call.document_id /\ CopiesIn(n, vector_store) = 2

----------------------------------------------------------------------------
(* Properties of the registry a restart rebuilds. *)

\* The file names an ingest can be given.
IngestNames == FileNames \ { <<>> }

\* C24: the registry a restart builds has, for every file of the directory
\* that an ingest of file_name wrote under its document_id, an entry under
\* that document_id with that file_name, underscores and all, whose
\* chunk count is the store's count of the document's chunks on a Chroma
\* store and 0 on another; and it has no other entry.
C24_RestartRecoversRegistry ==
    call.op = "restart" =>
        /\ \A c \in Contents, file_name \in IngestNames :
              StoragePath(content_hash[c], file_name) \in DOMAIN storage_dir =>
                  /\ content_hash[c] \in DOMAIN document_metadata
                  /\ document_metadata[content_hash[c]].document_id = content_hash[c]
                  /\ document_metadata[content_hash[c]].file_name = file_name
        /\ \A d \in DOMAIN document_metadata :
              /\ \E file_name \in IngestNames :
                    StoragePath(d, file_name) \in DOMAIN storage_dir
              /\ document_metadata[d].num_chunks =
                    count_where_document_id(vector_store, d)

\* C27: a deletion survives a restart: the registry a restart builds has no
\* entry for a document_id whose last successful operation was a
\* delete_document that returned "deleted".
C27_DeletionSurvivesRestart ==
    call.op = "restart" =>
        \A d \in DocumentIds :
            last_success[d] = "delete" => d \notin DOMAIN document_metadata

\* C28: an ingest that fails while parsing, splitting or embedding leaves no
\* trace: the registry is as it was and the upload directory holds no file
\* it did not hold before, so that a restart finds nothing of the upload.
FailedIngestStep ==
    /\ call'.op = "ingest_file"
    /\ call'.raised = "Exception"

C28_FailedIngestLeavesNoTrace ==
    [][FailedIngestStep =>
        /\ document_metadata' = document_metadata
        /\ DOMAIN storage_dir' = DOMAIN storage_dir]_vars

\* C29: no subprocess outlives shutdown: in the state shutdown leaves, no
\* process the service spawned is running, the process of a server whose
\* handshake failed after the spawn included.
C29_NoProcessOutlivesShutdown ==
    tool_call.op = "shutdown" =>
        \A pid \in 1..Len(processes) : ~processes[pid].running

\* The chunks the vector store holds for a document_id, copies counted.
StoredChunks(document_id) ==
    BagCardinality([n \in { m \in DOMAIN vector_store :
                              m.document_id = document_id }
                       |-> vector_store[n]])

\* C30: registry and vector store agree in every state successful ingests
\* and deletes reach: each entry's num_chunks is the number of chunks the
\* store holds for its document_id, and no chunk of the store has a
\* document_id without an entry.
C30_RegistryAgreesWithStore ==
    /\ \A d \in DOMAIN document_metadata :
          document_metadata[d].num_chunks = StoredChunks(d)
    /\ \A n \in DOMAIN vector_store :
          n.document_id \in DOMAIN document_metadata

\* The text of a fragment under the label of its source file.
Labelled(node) ==
    <<"[Source: ">> \o node.metadata.file_name \o <<"]\n">> \o node.text

\* content holds the labelled text of every node, one after the other in
\* the order of nodes.
HoldsInOrder(content, nodes) ==
    \E at \in [1..Len(nodes) -> 1..Len(content)] :
        /\ \A i \in 1..Len(nodes) :
              /\ at[i] + Len(Labelled(nodes[i])) - 1 <= Len(content)
              /\ SubSeq(content, at[i], at[i] + Len(Labelled(nodes[i])) - 1)
                    = Labelled(nodes[i])
        /\ \A i \in 1..(Len(nodes) - 1) :
              at[i] + Len(Labelled(nodes[i])) <= at[i + 1]

\* The content of the last message of role user.
LastUserContent(messages) ==
    LET users == { i \in 1..Len(messages) : messages[i].role = "user" }
    IN  messages[CHOOSE i \in users : \A j \in users : j <= i].content

\* The messages of the LLM call are the caller's messages, in their order
\* and with their roles and contents, from position first on.
CallerMessagesFrom(first) ==
    /\ Len(llm_input.messages) = Len(chat.request.messages) + first - 1
    /\ \A i \in 1..Len(chat.request.messages) :
          /\ llm_input.messages[i + first - 1].role = chat.request.messages[i].role
          /\ llm_input.messages[i + first - 1].content
                = chat.request.messages[i].content

\* C25: with use_context and a user message the retriever is asked with
\* the content of the last user message; if it returns fragments the LLM
\* receives one added system message at position 0 that holds every
\* fragment's text labelled by its file name in retrieval order, followed
\* by the caller's messages unchanged. Without use_context or without a
\* user message the retriever is not asked and the LLM receives the
\* caller's messages unchanged.
C25_ContextMessageFirst ==
    /\ chat.retrieval \in {"done", "raised"} =>
          /\ chat.request.use_context
          /\ chat.query = LastUserContent(chat.request.messages)
    /\ (chat.retrieval = "done" /\ chat.retrieved_nodes # <<>>
            /\ llm_input.called) =>
          /\ llm_input.messages[1].role = "system"
          /\ HoldsInOrder(llm_input.messages[1].content, chat.retrieved_nodes)
          /\ CallerMessagesFrom(2)
    /\ (~chat.request.use_context
            \/ \A i \in 1..Len(chat.request.messages) :
                   chat.request.messages[i].role # "user") =>
          /\ chat.retrieval = "skipped"
          /\ chat.retrieved_nodes = <<>>
          /\ llm_input.called => CallerMessagesFrom(1)

\* The LLM was called with the context of two fragments before a
\* conversation of four messages, the query being its last user message.
C25_Witness ==
    /\ chat.request.use_context
    /\ Len(chat.request.messages) = 4
    /\ chat.query = <<"q2">>
    /\ Len(chat.retrieved_nodes) = 2
    /\ llm_input.called
    /\ Len(llm_input.messages) = 5
    /\ llm_input.messages[1].role = "system"

\* The batch path has produced a response.
BatchResponded ==
    /\ ~chat.request.stream
    /\ chat.raised = "none"
    /\ Len(chat.response.choices) = 1

\* C26: on the batch path, with include_sources and fragments retrieved
\* for this request, sources has one entry per fragment in the order
\* retrieved; without include_sources sources is omitted; sources holds
\* nothing but fragments retrieved for this request.
C26_SourcesAreThisTurnsFragments ==
    BatchResponded =>
        LET sources == chat.response.sources
            nodes   == chat.retrieved_nodes
        IN  /\ (chat.request.include_sources /\ nodes # <<>>) =>
                  /\ sources.present
                  /\ Len(sources.items) = Len(nodes)
                  /\ \A i \in 1..Len(nodes) :
                        /\ sources.items[i].text = nodes[i].text
                        /\ sources.items[i].file_name = nodes[i].metadata.file_name
                        /\ sources.items[i].chunk_index
                              = nodes[i].metadata.chunk_index
                        /\ sources.items[i].score = nodes[i].score
            /\ ~chat.request.include_sources => sources = NoSources
            /\ Len(sources.items) <= Len(nodes)
            /\ chat.retrieval = "skipped" => sources = NoSources

\* A batch response cites two different fragments retrieved for its
\* request.
C26_Witness ==
    /\ BatchResponded
    /\ chat.request.include_sources
    /\ Len(chat.retrieved_nodes) = 2
    /\ chat.retrieved_nodes[1].text # chat.retrieved_nodes[2].text
    /\ chat.response.sources.present
    /\ Len(chat.response.sources.items) = 2

====
